---- MODULE Spec2Model ----
(***************************************************************************)
(* Session-memory compaction pipeline and query-disambiguation state       *)
(* machine of the chat assistant (src/app.py, src/src/agents.py,           *)
(* src/src/graph.py, src/src/database.py, src/src/utils.py,                *)
(* src/src/schemas.py).                                                    *)
(*                                                                         *)
(* The SQLite store is modelled by its two committed tables and by the     *)
(* uncommitted writes of the one open write transaction.  One turn is one  *)
(* run of the chat-input handler of app.py: the LangGraph pipeline         *)
(* (context_agent, summarizer_agent, query_agent, response_agent) and then *)
(* the two save_message calls.  The generation service and the storage     *)
(* layer may fail at every call.                                           *)
(*                                                                         *)
(* Optional values (Python None) are sequences of length 0 or 1.           *)
(***************************************************************************)
EXTENDS Integers, Sequences, FiniteSets, TLC

\* ------------------------------------------------------------------ bounds

\* Most message rows the log of a session may hold in the runs checked for
\* termination.
MaxLiveMessages == 4

\* Most words the text value of a generated payload holds.
MaxWords == 2

\* Most message rows the log of the long session may hold before no
\* further turn starts on it (more than the recent window holds).
MaxWindowMessages == 14

\* Most message rows a session log may hold before no further turn starts.
MaxMessages == 6

\* Agents.token_threshold (default 10000), scaled down to the size of the
\* modelled messages.
TokenThreshold == 15

\* ------------------------------------------------------- program constants

\* tokens += 4  (overhead for message structure)
MessageOverhead == 4

\* get_recent_messages(session_id, n=10)
RecentWindow == 10

Sessions == {"s1"}

Workers == {"w1"}

\* Texts a user may type into the chat input (never empty: app.py runs the
\* pipeline only for a truthy prompt).
Queries == {"fix it", "get football data"}

\* Text the generation service returns for a best-effort answer.
Answers == {"ok"}

None == <<>>

Some(v) == <<v>>

Range(f) == {f[i] : i \in DOMAIN f}

RECURSIVE SumSeq(_)
SumSeq(ns) ==
    IF ns = <<>> THEN 0 ELSE ns[1] + SumSeq(Tail(ns))

\* ------------------------------------------------------------- tokenizer

\* TokenCounter.count_tokens: len(self.encoding.encode(text)).  The encoding
\* is an external collaborator; it is modelled by a deterministic length
\* function of the text (one token per started group of four characters).
count_tokens(text) == (Len(text) + 3) \div 4

\* TokenCounter.count_message_tokens
count_message_tokens(message) ==
    count_tokens(message.content) + count_tokens(message.role) + MessageOverhead

\* ---------------------------------------------------------------- schemas

\* UserProfile(preferences=[], constraints=[])
EmptyUserProfile == [preferences |-> <<>>, constraints |-> <<>>]

\* The fallback SessionSummary of summarizer_agent: every list empty.
EmptySessionSummary ==
    [user_profile |-> EmptyUserProfile,
     key_facts |-> <<>>, decisions |-> <<>>,
     open_questions |-> <<>>, todos |-> <<>>]

SummaryFields ==
    {"user_profile", "key_facts", "decisions", "open_questions", "todos"}

\* A JSON object holding (some of) the fields of a SessionSummary: keys is
\* the set of keys present, the other fields their values.
SummaryObject(keys, summary) ==
    [keys |-> keys,
     user_profile |-> summary.user_profile,
     key_facts |-> summary.key_facts,
     decisions |-> summary.decisions,
     open_questions |-> summary.open_questions,
     todos |-> summary.todos]

\* The SessionSummary constructor applied to summary_dict: user_profile is
\* required, every list field defaults to the empty list.  None stands for
\* a ValidationError.
SessionSummaryFromDict(d) ==
    IF "user_profile" \notin d.keys THEN None
    ELSE Some([user_profile |-> d.user_profile,
               key_facts |-> IF "key_facts" \in d.keys THEN d.key_facts ELSE <<>>,
               decisions |-> IF "decisions" \in d.keys THEN d.decisions ELSE <<>>,
               open_questions |->
                   IF "open_questions" \in d.keys THEN d.open_questions ELSE <<>>,
               todos |-> IF "todos" \in d.keys THEN d.todos ELSE <<>>])

\* summary.session_summary.model_dump_json(): every field is written.
model_dump_json(summary) == SummaryObject(SummaryFields, summary)

\* Message(role, content, timestamp, token_count) as the store returns it.
Message(row) ==
    [role |-> row.role, content |-> row.content,
     timestamp |-> row.timestamp, token_count |-> row.token_count]

\* ------------------------------------------------------------------ state

VARIABLES
    messages,          \* table messages, committed rows in rowid order
    session_summaries, \* table session_summaries, committed rows in rowid order
    txn,               \* the open write transaction: its owner and its view
    pc,                \* per worker: the step of the turn it is about to take
    state,             \* per worker: the GraphState of the running pipeline
    locals,            \* per worker: local variables of the running handler
    outcome,           \* per worker: how its last turn ended, and where
    llm_calls,         \* per worker: generation calls of the turn, in order
    trigger_checks     \* per session: live_tokens of the trigger checks run
                       \* since the session's rows last changed (last two)

vars ==
    <<messages, session_summaries, txn, pc, state, locals, outcome,
      llm_calls, trigger_checks>>

\* ------------------------------------------------------------- SQL helpers

\* WHERE session_id = ?
SessionRows(rows, s) == SelectSeq(rows, LAMBDA r : r.session_id = s)

\* Mutant: among rows of equal timestamp the newest comes first.
RECURSIVE InsertByTimestampNewestFirst(_, _)
InsertByTimestampNewestFirst(sorted, row) ==
    IF sorted = <<>> THEN <<row>>
    ELSE IF sorted[Len(sorted)].timestamp < row.timestamp
         THEN Append(sorted, row)
         ELSE Append(InsertByTimestampNewestFirst(
                         SubSeq(sorted, 1, Len(sorted) - 1), row),
                     sorted[Len(sorted)])

RECURSIVE InsertByTimestamp(_, _)
InsertByTimestamp(sorted, row) ==
    IF sorted = <<>> THEN <<row>>
    ELSE IF sorted[Len(sorted)].timestamp <= row.timestamp
         THEN Append(sorted, row)
         ELSE Append(InsertByTimestamp(SubSeq(sorted, 1, Len(sorted) - 1), row),
                     sorted[Len(sorted)])

\* ORDER BY timestamp ASC over rows given in rowid order: rows of equal
\* timestamp stay in rowid order (the scan of the (session_id, timestamp)
\* index).
RECURSIVE OrderByTimestampAsc(_)
OrderByTimestampAsc(rows) ==
    IF rows = <<>> THEN <<>>
    ELSE InsertByTimestamp(OrderByTimestampAsc(SubSeq(rows, 1, Len(rows) - 1)),
                           rows[Len(rows)])

Reverse(seq) == [i \in 1..Len(seq) |-> seq[Len(seq) + 1 - i]]

\* ORDER BY timestamp DESC: the same index scanned backwards.
OrderByTimestampDesc(rows) == Reverse(OrderByTimestampAsc(rows))

\* LIMIT n OFFSET off (a negative LIMIT is no limit, a negative OFFSET is 0).
LimitOffset(rows, n, off) ==
    LET o == IF off < 0 THEN 0 ELSE off
        last == IF n < 0 \/ o + n > Len(rows) THEN Len(rows) ELSE o + n
    IN  SubSeq(rows, o + 1, last)

\* INTEGER PRIMARY KEY AUTOINCREMENT: larger than every id in the table.
NextRowId(rows) ==
    IF rows = <<>> THEN 1
    ELSE 1 + CHOOSE m \in {r.id : r \in Range(rows)} :
                 \A r \in Range(rows) : r.id <= m

\* ------------------------------------------------------ Database (pure part)

\* Mutant: the row is stored with the archived flag set.
InsertMessageArchived(rows, s, message) ==
    Append(rows,
           [id |-> NextRowId(rows), session_id |-> s, role |-> message.role,
            content |-> message.content, timestamp |-> message.timestamp,
            token_count |-> message.token_count, is_summarized |-> 1])

\* Database.save_message: the INSERT into messages (is_summarized DEFAULT 0).
InsertMessage(rows, s, message) ==
    Append(rows,
           [id |-> NextRowId(rows), session_id |-> s, role |-> message.role,
            content |-> message.content, timestamp |-> message.timestamp,
            token_count |-> message.token_count, is_summarized |-> 0])

\* Mutant: the archived rows are returned whatever exclude_summarized says.
get_messages_with_archived(rows, s, exclude_summarized) ==
    LET ordered == OrderByTimestampAsc(SessionRows(rows, s))
    IN  [i \in 1..Len(ordered) |-> Message(ordered[i])]

\* Database.get_messages(session_id, exclude_summarized)
get_messages(rows, s, exclude_summarized) ==
    LET mine == SessionRows(rows, s)
        kept == IF exclude_summarized
                THEN SelectSeq(mine, LAMBDA r : r.is_summarized = 0)
                ELSE mine
        ordered == OrderByTimestampAsc(kept)
    IN  [i \in 1..Len(ordered) |-> Message(ordered[i])]

\* Mutant: the window is taken from the unarchived messages.
get_recent_messages_unarchived(rows, s, n) ==
    LET live == SelectSeq(SessionRows(rows, s),
                          LAMBDA r : r.is_summarized = 0)
        newest == LimitOffset(OrderByTimestampDesc(live), n, 0)
        chrono == Reverse(newest)
    IN  [i \in 1..Len(chrono) |-> Message(chrono[i])]

\* Database.get_recent_messages(session_id, n)
get_recent_messages(rows, s, n) ==
    LET newest == LimitOffset(OrderByTimestampDesc(SessionRows(rows, s)), n, 0)
        chrono == Reverse(newest)
    IN  [i \in 1..Len(chrono) |-> Message(chrono[i])]

\* Mutant: the UPDATE inverts the flag of the rows it picks.
UpdateSummarizedInverting(rows, s, from_index, to_index) ==
    LET picked == LimitOffset(OrderByTimestampAsc(SessionRows(rows, s)),
                              to_index - from_index + 1, from_index)
        ids == {r.id : r \in Range(picked)}
    IN  [i \in 1..Len(rows) |->
            IF rows[i].session_id = s /\ rows[i].id \in ids
            THEN [rows[i] EXCEPT !.is_summarized = 1 - @]
            ELSE rows[i]]

\* Mutant: the LIMIT of the UPDATE is to - from, one row short.
UpdateSummarizedOneShort(rows, s, from_index, to_index) ==
    LET picked == LimitOffset(OrderByTimestampAsc(SessionRows(rows, s)),
                              to_index - from_index, from_index)
        ids == {r.id : r \in Range(picked)}
    IN  [i \in 1..Len(rows) |->
            IF rows[i].session_id = s /\ rows[i].id \in ids
            THEN [rows[i] EXCEPT !.is_summarized = 1]
            ELSE rows[i]]

\* Mutant: neither the UPDATE nor its subquery is restricted to the session.
UpdateSummarizedAcrossSessions(rows, s, from_index, to_index) ==
    LET picked == LimitOffset(OrderByTimestampAsc(rows),
                              to_index - from_index + 1, from_index)
        ids == {r.id : r \in Range(picked)}
    IN  [i \in 1..Len(rows) |->
            IF rows[i].id \in ids
            THEN [rows[i] EXCEPT !.is_summarized = 1]
            ELSE rows[i]]

\* The UPDATE of mark_messages_as_summarized and of save_summary:
\* SET is_summarized = 1 WHERE session_id = ? AND id IN
\* (SELECT id ... ORDER BY timestamp ASC LIMIT to - from + 1 OFFSET from).
UpdateSummarized(rows, s, from_index, to_index) ==
    LET picked == LimitOffset(OrderByTimestampAsc(SessionRows(rows, s)),
                              to_index - from_index + 1, from_index)
        ids == {r.id : r \in Range(picked)}
    IN  [i \in 1..Len(rows) |->
            IF rows[i].session_id = s /\ rows[i].id \in ids
            THEN [rows[i] EXCEPT !.is_summarized = 1]
            ELSE rows[i]]

\* Mutant: the summary row of the session is replaced, not added to.
InsertSummaryReplacing(rows, s, summary) ==
    Append(SelectSeq(rows, LAMBDA r : r.session_id # s),
           [id |-> NextRowId(rows), session_id |-> s,
            summary_json |-> model_dump_json(summary.session_summary),
            from_message_index |-> summary.message_range_summarized.from_index,
            to_message_index |-> summary.message_range_summarized.to_index,
            timestamp |-> summary.timestamp])

\* The INSERT of save_summary.
InsertSummary(rows, s, summary) ==
    Append(rows,
           [id |-> NextRowId(rows), session_id |-> s,
            summary_json |-> model_dump_json(summary.session_summary),
            from_message_index |-> summary.message_range_summarized.from_index,
            to_message_index |-> summary.message_range_summarized.to_index,
            timestamp |-> summary.timestamp])

\* A row of session_summaries read back as a SessionMemoryOutput.
SessionMemoryOutputOfRow(row) ==
    [session_summary |-> SessionSummaryFromDict(row.summary_json)[1],
     message_range_summarized |->
         [from_index |-> row.from_message_index,
          to_index |-> row.to_message_index],
     timestamp |-> row.timestamp]

\* Mutant: the oldest summary is returned (ORDER BY timestamp ASC LIMIT 1).
get_latest_summary_oldest(rows, s) ==
    LET first == LimitOffset(OrderByTimestampAsc(SessionRows(rows, s)), 1, 0)
    IN  IF first = <<>> THEN None
        ELSE Some(SessionMemoryOutputOfRow(first[1]))

\* Database.get_latest_summary: ORDER BY timestamp DESC LIMIT 1, or None.
get_latest_summary(rows, s) ==
    LET first == LimitOffset(OrderByTimestampDesc(SessionRows(rows, s)), 1, 0)
    IN  IF first = <<>> THEN None
        ELSE Some(SessionMemoryOutputOfRow(first[1]))

\* Mutant: the summaries are listed newest first.
get_all_summaries_newest_first(rows, s) ==
    LET ordered == OrderByTimestampDesc(SessionRows(rows, s))
    IN  [i \in 1..Len(ordered) |-> SessionMemoryOutputOfRow(ordered[i])]

\* Database.get_all_summaries: ORDER BY timestamp ASC.
get_all_summaries(rows, s) ==
    LET ordered == OrderByTimestampAsc(SessionRows(rows, s))
    IN  [i \in 1..Len(ordered) |-> SessionMemoryOutputOfRow(ordered[i])]

\* The DELETEs of clear_session on one table.
DeleteSessionRows(rows, s) == SelectSeq(rows, LAMBDA r : r.session_id # s)

\* ------------------------------------------------- generation service output

\* The text returned by the generation service for a structured request:
\* fence is the code-fence marker the text starts with ("fence_json" for
\* three backticks and the word json, "fence" for three backticks, "" for
\* none), json
\* says whether the text inside is well-formed JSON, object is the JSON
\* object it denotes.
SummaryA ==
    [user_profile |-> [preferences |-> <<"python">>, constraints |-> <<>>],
     key_facts |-> <<"login bug">>, decisions |-> <<>>,
     open_questions |-> <<"which source?">>, todos |-> <<>>]

\* Well-formed and schema-valid summary payloads (here one, wrapped in a
\* json fence).
ValidSummaryResponses ==
    {[fence |-> "fence_json", json |-> TRUE,
      object |-> SummaryObject(SummaryFields, SummaryA)]}

\* Malformed summary payloads: text that is not JSON, and a JSON object
\* without the required user_profile.
MalformedSummaryResponses ==
    {[fence |-> "", json |-> FALSE,
      object |-> SummaryObject({}, EmptySessionSummary)],
     [fence |-> "", json |-> TRUE,
      object |-> SummaryObject({"key_facts"},
                               [EmptySessionSummary EXCEPT
                                    !.key_facts = <<"login bug">>])]}

SummaryResponses == ValidSummaryResponses \cup MalformedSummaryResponses

\* The fence removal of both parsers: when the text starts with the json
\* fence or with the bare fence, every fence marker is replaced by "" and
\* the text is stripped; the text is left as it is otherwise.
StripFence(content) ==
    IF content.fence = "fence_json" \/ content.fence = "fence"
    THEN [content EXCEPT !.fence = ""]
    ELSE content

\* Mutant: only json.JSONDecodeError is caught, a schema error escapes.
ParseSummaryResponseJsonErrorsOnly(response) ==
    LET content == StripFence(response)
    IN  IF content.fence # "" \/ ~content.json
        THEN Some(EmptySessionSummary)
        ELSE SessionSummaryFromDict(content.object)

\* summarizer_agent, "Parse JSON response": the try block with json.loads
\* and the SessionSummary constructor, and its two except branches, which
\* both fall back to the empty summary.  The value is the summary the block
\* leaves in session_summary, or None for an exception that escapes it.
ParseSummaryResponse(response) ==
    LET content == StripFence(response)
    IN  IF content.fence # "" \/ ~content.json
        THEN Some(EmptySessionSummary)
        ELSE LET parsed == SessionSummaryFromDict(content.object)
             IN  IF parsed = None THEN Some(EmptySessionSummary) ELSE parsed

QueryFields ==
    {"original_query", "is_ambiguous", "rewritten_query",
     "possible_interpretations", "needed_context_from_memory",
     "clarifying_questions", "final_augmented_context"}

\* A query-understanding payload that is a JSON object with every key.  A
\* JSON null is None.
QueryObject(oq, amb, rq, pi, cq) ==
    [fence |-> "", json |-> TRUE,
     object |-> [keys |-> QueryFields,
                 original_query |-> oq,
                 is_ambiguous |-> amb,
                 rewritten_query |-> rq,
                 possible_interpretations |-> pi,
                 needed_context_from_memory |-> Some(<<>>),
                 clarifying_questions |-> cq,
                 final_augmented_context |-> "context"]]

\* A query-understanding payload that is not JSON.
MalformedQueryResponse ==
    [fence |-> "", json |-> FALSE,
     object |-> [keys |-> {},
                 original_query |-> "",
                 is_ambiguous |-> FALSE,
                 rewritten_query |-> None,
                 possible_interpretations |-> None,
                 needed_context_from_memory |-> None,
                 clarifying_questions |-> None,
                 final_augmented_context |-> ""]]

\* A query-understanding payload that is a JSON object without the
\* required is_ambiguous.
SchemaInvalidQueryResponse ==
    [fence |-> "", json |-> TRUE,
     object |-> [keys |-> QueryFields \ {"is_ambiguous"},
                 original_query |-> "something else",
                 is_ambiguous |-> TRUE,
                 rewritten_query |-> Some("fix the login bug"),
                 possible_interpretations |-> Some(<<"results">>),
                 needed_context_from_memory |-> Some(<<>>),
                 clarifying_questions |-> Some(<<"which one?", "why?">>),
                 final_augmented_context |-> "context"]]

\* Well-formed, schema-valid payloads whose final_augmented_context is the
\* empty text, or is left out (the field defaults to "").
ContextlessQueryResponses(q) ==
    {[fence |-> "", json |-> TRUE,
      object |-> [keys |-> QueryFields,
                  original_query |-> q,
                  is_ambiguous |-> FALSE,
                  rewritten_query |-> None,
                  possible_interpretations |-> Some(<<>>),
                  needed_context_from_memory |-> Some(<<>>),
                  clarifying_questions |-> Some(<<>>),
                  final_augmented_context |-> ""]],
     [fence |-> "", json |-> TRUE,
      object |-> [keys |-> QueryFields \ {"final_augmented_context"},
                  original_query |-> q,
                  is_ambiguous |-> FALSE,
                  rewritten_query |-> None,
                  possible_interpretations |-> Some(<<>>),
                  needed_context_from_memory |-> Some(<<>>),
                  clarifying_questions |-> Some(<<>>),
                  final_augmented_context |-> "context"]]}

\* The payloads that cannot be parsed or validated.
MalformedQueryResponses ==
    {MalformedQueryResponse, SchemaInvalidQueryResponse}

AllQueryResponses(q) ==
    {QueryObject(oq, amb, rq, pi, cq) :
        oq \in {q, "something else"},
        amb \in BOOLEAN,
        rq \in {None, Some(""), Some("fix the login bug")},
        pi \in {None, Some(<<"results">>), Some(<<"results", "standings">>)},
        cq \in {None, Some(<<>>), Some(<<"which one?", "why?">>)}}
    \cup MalformedQueryResponses
    \cup ContextlessQueryResponses(q)

\* The payloads of the turns of a whole session: a clear query, a cryptic
\* one and the malformed payloads.
QueryResponses(q) ==
    {QueryObject(q, FALSE, None, Some(<<>>), Some(<<>>)),
     QueryObject(q, TRUE, None, Some(<<>>), Some(<<"which one?", "why?">>))}
    \cup MalformedQueryResponses

\* query_dict.get(key) is None -> []
SanitizeList(d, key, value) ==
    IF key \notin d.keys \/ value = None THEN <<>> ELSE value[1]

\* The QueryUnderstanding constructor applied to query_dict after the None
\* lists are sanitized: original_query and is_ambiguous are required.  None
\* stands for a ValidationError.
QueryUnderstandingFromDict(d) ==
    IF "original_query" \notin d.keys \/ "is_ambiguous" \notin d.keys
    THEN None
    ELSE Some([original_query |-> d.original_query,
               is_ambiguous |-> d.is_ambiguous,
               rewritten_query |->
                   IF "rewritten_query" \in d.keys THEN d.rewritten_query
                   ELSE None,
               possible_interpretations |->
                   SanitizeList(d, "possible_interpretations",
                                d.possible_interpretations),
               needed_context_from_memory |->
                   SanitizeList(d, "needed_context_from_memory",
                                d.needed_context_from_memory),
               clarifying_questions |->
                   SanitizeList(d, "clarifying_questions",
                                d.clarifying_questions),
               final_augmented_context |->
                   IF "final_augmented_context" \in d.keys
                   THEN d.final_augmented_context ELSE ""])

\* Mutant: the fallback leaves final_augmented_context at its default.
FallbackQueryUnderstandingNoContext(user_query, recent_context) ==
    [original_query |-> user_query,
     is_ambiguous |-> FALSE,
     rewritten_query |-> None,
     possible_interpretations |-> <<>>,
     needed_context_from_memory |-> <<>>,
     clarifying_questions |-> <<>>,
     final_augmented_context |-> ""]

\* The fallback of query_agent.
FallbackQueryUnderstanding(user_query, recent_context) ==
    [original_query |-> user_query,
     is_ambiguous |-> FALSE,
     rewritten_query |-> None,
     possible_interpretations |-> <<>>,
     needed_context_from_memory |-> <<>>,
     clarifying_questions |-> <<>>,
     final_augmented_context |-> recent_context]

\* query_agent, "Parse response".
ParseQueryResponse(response, user_query, recent_context) ==
    LET content == StripFence(response)
    IN  IF content.fence # "" \/ ~content.json
        THEN FallbackQueryUnderstanding(user_query, recent_context)
        ELSE LET parsed == QueryUnderstandingFromDict(content.object)
             IN  IF parsed = None
                 THEN FallbackQueryUnderstanding(user_query, recent_context)
                 ELSE parsed[1]

\* msg.role.upper()
Upper(role) == IF role = "user" THEN "USER" ELSE "ASSISTANT"

\* "\n".join(lines)
RECURSIVE JoinLines(_)
JoinLines(lines) ==
    IF lines = <<>> THEN ""
    ELSE IF Len(lines) = 1 THEN lines[1]
         ELSE lines[1] \o "\n" \o JoinLines(Tail(lines))

\* query_agent: the recent-window text.
RecentContext(recent_messages) ==
    LET text == JoinLines([i \in 1..Len(recent_messages) |->
                    Upper(recent_messages[i].role) \o ": "
                        \o recent_messages[i].content])
    IN  IF text = "" THEN "No previous conversation." ELSE text

\* Mutant: the questions are listed last first.
ClarificationTextReversed(questions) ==
    "I need some clarification:\n\n"
        \o JoinLines([i \in 1..Len(questions) |->
                         ToString(i) \o ". " \o Reverse(questions)[i]])

\* response_agent: the hard-stop response.
ClarificationText(questions) ==
    "I need some clarification:\n\n"
        \o JoinLines([i \in 1..Len(questions) |->
                         ToString(i) \o ". " \o questions[i]])

\* Mutant: the hard stop does not look at rewritten_query.
IsHardStopIgnoringRewrite(qu) ==
    /\ qu.is_ambiguous
    /\ qu.clarifying_questions # <<>>

\* Mutant: the hard-stop branch is never taken.
IsHardStopNever(qu) == FALSE

\* response_agent: the hard-stop condition (Python truthiness: None and ""
\* are falsy, and so is an empty list).
IsHardStop(qu) ==
    /\ qu.is_ambiguous
    /\ (qu.rewritten_query = None \/ qu.rewritten_query = Some(""))
    /\ qu.clarifying_questions # <<>>

\* ------------------------------------------------------------ the pipeline

\* Mutant: the initial state already holds the latest stored summary.
InitialStateWithLatestSummary(s, q) ==
    [session_id |-> s, user_query |-> q, messages |-> <<>>,
     total_tokens |-> 0, needs_summarization |-> FALSE,
     session_summary |-> get_latest_summary(session_summaries, s),
     query_understanding |-> None,
     final_response |-> ""]

\* ConversationGraph.run: initial_state
InitialState(s, q) ==
    [session_id |-> s, user_query |-> q, messages |-> <<>>,
     total_tokens |-> 0, needs_summarization |-> FALSE,
     session_summary |-> None, query_understanding |-> None,
     final_response |-> ""]

\* No pipeline is running.
NoState == InitialState("", "")

\* The local variables of summarizer_agent, the local variables
\* recent_messages, summary and response (here query_response) of
\* query_agent, the local variable
\* human_prompt of response_agent, and two history values: first_index, the
\* number of rows the session log held when the turn's query arrived, and
\* before, the committed tables when the compaction write began.
NoLocals ==
    [previous_summary |-> None, response |-> None, session_summary |-> None,
     summary_output |-> None, summary |-> None, query_response |-> None,
     recent_messages |-> <<>>, human_prompt |-> None, first_index |-> 0,
     before |-> None]

\* kind: "none", "running", "ok", "cleared" (a session delete returned), or
\* the kind of error that left the handler; stage: the step at which the
\* error was raised.
Outcome(kind, stage) == [kind |-> kind, stage |-> stage]

RECURSIVE MaxOf(_)
MaxOf(ns) ==
    IF ns = <<>> THEN 0
    ELSE LET m == MaxOf(Tail(ns)) IN IF ns[1] > m THEN ns[1] ELSE m

\* datetime.now(): the wall clock is read after the rows of both tables were
\* written, so the reading is later than every timestamp stored.  Time that
\* passes without a write is not kept.
Now ==
    1 + MaxOf([i \in 1..Len(messages) |-> messages[i].timestamp]
              \o [i \in 1..Len(session_summaries) |->
                     session_summaries[i].timestamp])

\* datetime.now() read again right after a row was written with the
\* previous reading: the clock has advanced or still shows the same instant.
NowOrSameInstant == {Now - 1, Now}

\* context_agent: sum(count_message_tokens(msg) for msg in messages)
TotalTokens(msgs) ==
    SumSeq([i \in 1..Len(msgs) |-> count_message_tokens(msgs[i])])

\* Mutant: compaction is triggered at twice the threshold.
NeedsSummarizationTwiceThreshold(total_tokens) ==
    total_tokens > 2 * TokenThreshold

\* Mutant: the comparison with the threshold is not strict.
NeedsSummarizationAtThreshold(total_tokens) == total_tokens >= TokenThreshold

\* context_agent: needs_summarization = total_tokens > self.token_threshold
NeedsSummarization(total_tokens) == total_tokens > TokenThreshold

\* Mutant: the two targets of the conditional edge are exchanged.
should_summarize_exchanged(st) ==
    IF st.needs_summarization THEN "query_agent" ELSE "summarizer_agent"

\* Mutant: without a compaction to run, the edge leads back to
\* context_agent.
should_summarize_again(st) ==
    IF st.needs_summarization THEN "summarizer_agent" ELSE "context_agent"

\* Mutant: a turn without a query skips the compaction.
should_summarize_with_query(st) ==
    IF st.needs_summarization /\ st.user_query # ""
    THEN "summarizer_agent" ELSE "query_agent"

\* should_summarize: the conditional edge after context_agent.
should_summarize(st) ==
    IF st.needs_summarization THEN "summarizer_agent" ELSE "query_agent"

\* Mutant: the range is half-open, to_index is one past the last message.
ComputeRangeHalfOpen(total_messages_in_db, unsummarized_messages_count) ==
    [from_index |-> total_messages_in_db - unsummarized_messages_count,
     to_index |-> total_messages_in_db]

\* Mutant: the range is counted within the unarchived messages, not within
\* the full log.
ComputeRangeOfUnarchived(total_messages_in_db, unsummarized_messages_count) ==
    [from_index |-> 0, to_index |-> unsummarized_messages_count - 1]

\* Mutant: the two ends of the range are exchanged.
ComputeRangeBackwards(total_messages_in_db, unsummarized_messages_count) ==
    [from_index |-> total_messages_in_db - 1,
     to_index |-> total_messages_in_db - unsummarized_messages_count]

\* summarizer_agent: "Calculate absolute indices in database".
ComputeRange(total_messages_in_db, unsummarized_messages_count) ==
    [from_index |-> total_messages_in_db - unsummarized_messages_count,
     to_index |-> total_messages_in_db - 1]

\* MessageRange: from_index and to_index are Field(ge=0).
MessageRangeValid(range) == range.from_index >= 0 /\ range.to_index >= 0

\* The trigger checks of session s since its rows last changed.
NoteCheck(checks, total) ==
    IF Len(checks) < 2 THEN Append(checks, total) ELSE <<checks[2], total>>

\* The checks are forgotten for every session whose rows changed.
ForgetChecks(old, new) ==
    [s \in DOMAIN trigger_checks |->
        IF SessionRows(old, s) = SessionRows(new, s) THEN trigger_checks[s]
        ELSE <<>>]

Init ==
    /\ messages = <<>>
    /\ session_summaries = <<>>
    /\ txn = None
    /\ pc = [w \in Workers |-> "idle"]
    /\ state = [w \in Workers |-> NoState]
    /\ locals = [w \in Workers |-> NoLocals]
    /\ outcome = [w \in Workers |-> Outcome("none", "")]
    /\ llm_calls = [w \in Workers |-> <<>>]
    /\ trigger_checks = [s \in Sessions |-> <<>>]

\* Mutant: the handler reports success whatever ended the turn.
EndTurnReportingOk(w, kind, stage) ==
    /\ pc' = [pc EXCEPT ![w] = "idle"]
    /\ state' = [state EXCEPT ![w] = NoState]
    /\ locals' = [locals EXCEPT ![w] = NoLocals]
    /\ llm_calls' = [llm_calls EXCEPT ![w] = <<>>]
    /\ outcome' = [outcome EXCEPT ![w] = Outcome("ok", "")]

\* The turn of worker w ends: the handler returns or an error leaves it,
\* and the result of the pipeline is dropped.
EndTurn(w, kind, stage) ==
    /\ pc' = [pc EXCEPT ![w] = "idle"]
    /\ state' = [state EXCEPT ![w] = NoState]
    /\ locals' = [locals EXCEPT ![w] = NoLocals]
    /\ llm_calls' = [llm_calls EXCEPT ![w] = <<>>]
    /\ outcome' = [outcome EXCEPT ![w] = Outcome(kind, stage)]

\* Mutant: the user message is stored before the pipeline runs.
SubmitQuerySavingFirst(w, s, q) ==
    /\ pc[w] = "idle"
    /\ txn = None
    /\ Len(SessionRows(messages, s)) + 2 <= MaxMessages
    /\ pc' = [pc EXCEPT ![w] = "context_agent"]
    /\ state' = [state EXCEPT ![w] = InitialState(s, q)]
    /\ locals' = [locals EXCEPT ![w] =
                      [NoLocals EXCEPT
                           !.first_index = Len(SessionRows(messages, s))]]
    /\ llm_calls' = [llm_calls EXCEPT ![w] = <<>>]
    /\ outcome' = [outcome EXCEPT ![w] = Outcome("running", "")]
    /\ messages' = InsertMessage(messages, s,
                                 [role |-> "user", content |-> q,
                                  timestamp |-> Now, token_count |-> 0])
    /\ trigger_checks' = [trigger_checks EXCEPT ![s] = <<>>]
    /\ UNCHANGED <<session_summaries, txn>>

\* app.py main, "if prompt := st.chat_input(...)": graph.run(session_id,
\* user_query) starts with the initial state.  No turn starts on a session
\* whose log could grow past cap rows.
SubmitQueryUpTo(w, s, q, cap) ==
    /\ pc[w] = "idle"
    /\ Len(SessionRows(messages, s)) + 2 <= cap
    /\ pc' = [pc EXCEPT ![w] = "context_agent"]
    /\ state' = [state EXCEPT ![w] = InitialState(s, q)]
    /\ locals' = [locals EXCEPT ![w] =
                      [NoLocals EXCEPT
                           !.first_index = Len(SessionRows(messages, s))]]
    /\ llm_calls' = [llm_calls EXCEPT ![w] = <<>>]
    /\ outcome' = [outcome EXCEPT ![w] = Outcome("running", "")]
    /\ UNCHANGED <<messages, session_summaries, txn, trigger_checks>>

\* A turn of the sessions of at most MaxMessages rows.
SubmitQuery(w, s, q) == SubmitQueryUpTo(w, s, q, MaxMessages)

\* Agents.context_agent, followed by the conditional edge should_summarize.
ContextAgent(w) ==
    /\ pc[w] = "context_agent"
    /\ LET s == state[w].session_id
           msgs == get_messages(messages, s, TRUE)
           total_tokens == TotalTokens(msgs)
           st == [state[w] EXCEPT
                      !.messages = msgs,
                      !.total_tokens = total_tokens,
                      !.needs_summarization = NeedsSummarization(total_tokens)]
       IN  /\ state' = [state EXCEPT ![w] = st]
           /\ pc' = [pc EXCEPT ![w] = should_summarize(st)]
           /\ trigger_checks' =
                  [trigger_checks EXCEPT ![s] = NoteCheck(@, total_tokens)]
    /\ UNCHANGED <<messages, session_summaries, txn, locals, llm_calls,
                   outcome>>

\* Agents.summarizer_agent up to the parsed summary: the early return for an
\* empty message list, get_latest_summary, the generation call and the
\* parse of its response, which is one of responses.
SummarizerInvokeOn(w, responses) ==
    /\ pc[w] = "summarizer_agent"
    /\ IF state[w].messages = <<>>
       THEN /\ pc' = [pc EXCEPT ![w] = "query_agent"]
            /\ UNCHANGED <<state, locals, outcome, llm_calls>>
       ELSE \E response \in responses :
                IF ParseSummaryResponse(response) = None
                THEN EndTurn(w, "parse_error", "summarizer_agent")
                ELSE /\ locals' = [locals EXCEPT
                            ![w].previous_summary =
                                get_latest_summary(session_summaries,
                                                   state[w].session_id),
                            ![w].response = Some(response),
                            ![w].session_summary =
                                ParseSummaryResponse(response)]
                     /\ llm_calls' =
                            [llm_calls EXCEPT
                                 ![w] = Append(@, "summarizer_agent")]
                     /\ pc' = [pc EXCEPT ![w] = "summarizer_range"]
                     /\ UNCHANGED <<state, outcome>>
    /\ UNCHANGED <<messages, session_summaries, txn, trigger_checks>>

\* summarizer_agent over well-formed and malformed payloads.
SummarizerInvoke(w) == SummarizerInvokeOn(w, SummaryResponses)

\* Mutant: the unarchived messages are counted anew in the store when the
\* range is computed.
unsummarized_messages_count_reread(w) ==
    Len(get_messages(messages, state[w].session_id, TRUE))

\* summarizer_agent: unsummarized_messages_count = len(messages), the
\* messages context_agent read into the state.
unsummarized_messages_count(w) == Len(state[w].messages)

\* Agents.summarizer_agent: the range and the SessionMemoryOutput.  An
\* invalid MessageRange raises out of the handler.
SummarizerRange(w) ==
    /\ pc[w] = "summarizer_range"
    /\ LET s == state[w].session_id
           all_messages == get_messages(messages, s, FALSE)
           range == ComputeRange(Len(all_messages),
                                 unsummarized_messages_count(w))
       IN  IF MessageRangeValid(range)
           THEN /\ locals' = [locals EXCEPT
                       ![w].summary_output =
                           Some([session_summary |->
                                     locals[w].session_summary[1],
                                 message_range_summarized |-> range,
                                 timestamp |-> Now]),
                       ![w].before =
                           Some([messages |-> messages,
                                 session_summaries |-> session_summaries])]
                /\ pc' = [pc EXCEPT ![w] = "save_summary_insert"]
                /\ UNCHANGED <<state, outcome, llm_calls>>
           ELSE EndTurn(w, "validation_error", "summarizer_range")
    /\ UNCHANGED <<messages, session_summaries, txn, trigger_checks>>

\* Mutant: the INSERT is committed on its own, before the UPDATE runs.
SaveSummaryInsertAutocommit(w) ==
    /\ pc[w] = "save_summary_insert"
    /\ txn = None
    /\ session_summaries' =
           InsertSummary(session_summaries, state[w].session_id,
                         locals[w].summary_output[1])
    /\ txn' = Some([owner |-> w,
                    messages |-> messages,
                    session_summaries |->
                        InsertSummary(session_summaries, state[w].session_id,
                                      locals[w].summary_output[1])])
    /\ pc' = [pc EXCEPT ![w] = "save_summary_update"]
    /\ UNCHANGED <<messages, state, locals, llm_calls, trigger_checks,
                   outcome>>

\* Database.save_summary, the INSERT: it opens the write transaction.
SaveSummaryInsert(w) ==
    /\ pc[w] = "save_summary_insert"
    /\ txn = None
    /\ txn' = Some([owner |-> w,
                    messages |-> messages,
                    session_summaries |->
                        InsertSummary(session_summaries, state[w].session_id,
                                      locals[w].summary_output[1])])
    /\ pc' = [pc EXCEPT ![w] = "save_summary_update"]
    /\ UNCHANGED <<messages, session_summaries, state, locals, llm_calls,
                   trigger_checks, outcome>>

\* Database.save_summary, the UPDATE in the same transaction.
SaveSummaryUpdate(w) ==
    /\ pc[w] = "save_summary_update"
    /\ txn # None /\ txn[1].owner = w
    /\ LET range == locals[w].summary_output[1].message_range_summarized
       IN  txn' = Some([txn[1] EXCEPT
                            !.messages =
                                UpdateSummarized(@, state[w].session_id,
                                                 range.from_index,
                                                 range.to_index)])
    /\ pc' = [pc EXCEPT ![w] = "save_summary_commit"]
    /\ UNCHANGED <<messages, session_summaries, state, locals, llm_calls,
                   trigger_checks, outcome>>

\* Database._get_connection: conn.commit() at the end of save_summary.
SaveSummaryCommit(w) ==
    /\ pc[w] = "save_summary_commit"
    /\ txn # None /\ txn[1].owner = w
    /\ messages' = txn[1].messages
    /\ session_summaries' = txn[1].session_summaries
    /\ txn' = None
    /\ trigger_checks' = ForgetChecks(messages, txn[1].messages)
    /\ pc' = [pc EXCEPT ![w] = "mark_messages"]
    /\ UNCHANGED <<state, locals, llm_calls, outcome>>

\* Database.mark_messages_as_summarized, called by summarizer_agent after
\* save_summary in a transaction of its own, and the return of
\* summarizer_agent.
MarkMessagesAsSummarized(w) ==
    /\ pc[w] = "mark_messages"
    /\ txn = None
    /\ LET range == locals[w].summary_output[1].message_range_summarized
           marked == UpdateSummarized(messages, state[w].session_id,
                                      range.from_index, range.to_index)
       IN  /\ messages' = marked
           /\ trigger_checks' = ForgetChecks(messages, marked)
    /\ state' = [state EXCEPT
                     ![w].session_summary = locals[w].summary_output,
                     ![w].needs_summarization = FALSE]
    /\ pc' = [pc EXCEPT ![w] = "query_agent"]
    /\ UNCHANGED <<session_summaries, txn, locals, llm_calls, outcome>>

\* Agents.query_agent: the early return for an empty query, the recent
\* window, the latest summary, the generation call, whose response is one
\* of responses, and the parse of that response.
QueryAgentOn(w, responses) ==
    /\ pc[w] = "query_agent"
    /\ IF state[w].user_query = ""
       THEN UNCHANGED <<state, locals, llm_calls>>
       ELSE \E response \in responses :
                LET recent_messages ==
                        get_recent_messages(messages, state[w].session_id,
                                            RecentWindow)
                    qu == ParseQueryResponse(response, state[w].user_query,
                                             RecentContext(recent_messages))
                IN  /\ state' = [state EXCEPT
                                     ![w].query_understanding = Some(qu)]
                    /\ locals' =
                           [locals EXCEPT
                                ![w].recent_messages = recent_messages,
                                ![w].summary =
                                    get_latest_summary(session_summaries,
                                                       state[w].session_id),
                                ![w].query_response = Some(response)]
                    /\ llm_calls' =
                           [llm_calls EXCEPT ![w] = Append(@, "query_agent")]
    /\ pc' = [pc EXCEPT ![w] = "response_agent"]
    /\ UNCHANGED <<messages, session_summaries, txn, trigger_checks, outcome>>

\* query_agent in the turns of a whole session.
QueryAgent(w) == QueryAgentOn(w, QueryResponses(state[w].user_query))

\* query_agent over every shape of payload.
QueryAgentAnyShape(w) ==
    QueryAgentOn(w, AllQueryResponses(state[w].user_query))

\* Mutant: the original query is used whenever it is not empty.
effective_query_original_first(qu) ==
    IF qu.original_query # "" \/ qu.rewritten_query = None
    THEN qu.original_query
    ELSE qu.rewritten_query[1]

\* response_agent: effective_query, the rewritten query when it is truthy
\* and the original query otherwise.
effective_query(qu) ==
    IF qu.rewritten_query # None /\ qu.rewritten_query # Some("")
    THEN qu.rewritten_query[1]
    ELSE qu.original_query

\* Mutant: one interpretation is enough to present options.
has_any_interpretation(qu) ==
    qu.possible_interpretations # <<>>

\* response_agent: has_multiple_interpretations (an empty list is falsy).
has_multiple_interpretations(qu) ==
    /\ qu.possible_interpretations # <<>>
    /\ Len(qu.possible_interpretations) > 1

\* response_agent: interpretations_text, the interpretations numbered from
\* 1, one per line.
interpretations_text(qu) ==
    JoinLines([i \in 1..Len(qu.possible_interpretations) |->
                  ToString(i) \o ". " \o qu.possible_interpretations[i]])

\* The two closing requests of human_prompt.
RequestOptions ==
    "Provide a helpful response that:\n"
        \o "1. Acknowledges these different interpretations\n"
        \o "2. Gives brief guidance for each option\n"
        \o "3. Asks user which specific aspect they want to focus on"

RequestDirectAnswer == "Provide a helpful response."

\* response_agent: human_prompt, by its parts: the text after "Context:",
\* the text after "User query:", the list of interpretations when the
\* prompt has one, and the closing request.
HumanPrompt(qu) ==
    [context |-> qu.final_augmented_context,
     user_query |-> effective_query(qu),
     interpretations |->
         IF has_multiple_interpretations(qu)
         THEN Some(interpretations_text(qu)) ELSE None,
     request |->
         IF has_multiple_interpretations(qu)
         THEN RequestOptions ELSE RequestDirectAnswer]

\* response_agent makes a generation call in this state.
ResponseGenerates(st) ==
    /\ st.query_understanding # None
    /\ ~IsHardStop(st.query_understanding[1])

\* Agents.response_agent.
ResponseAgent(w) ==
    /\ pc[w] = "response_agent"
    /\ IF state[w].query_understanding = None
       THEN /\ state' = [state EXCEPT ![w].final_response =
                             "I need a query to respond to."]
            /\ UNCHANGED <<locals, llm_calls>>
       ELSE IF IsHardStop(state[w].query_understanding[1])
       THEN /\ state' = [state EXCEPT ![w].final_response =
                             ClarificationText(
                                 state[w].query_understanding[1]
                                     .clarifying_questions)]
            /\ UNCHANGED <<locals, llm_calls>>
       ELSE \E answer \in Answers :
                /\ state' = [state EXCEPT ![w].final_response = answer]
                /\ locals' =
                       [locals EXCEPT
                            ![w].human_prompt =
                                Some(HumanPrompt(
                                         state[w].query_understanding[1]))]
                /\ llm_calls' =
                       [llm_calls EXCEPT ![w] = Append(@, "response_agent")]
    /\ pc' = [pc EXCEPT ![w] = "save_user_message"]
    /\ UNCHANGED <<messages, session_summaries, txn, trigger_checks, outcome>>

\* Mutant: the handler stores the user message of a turn whose generation
\* call failed.
GenerationFailureSavingQuery(w) ==
    /\ CASE pc[w] = "summarizer_agent" -> state[w].messages # <<>>
         [] pc[w] = "query_agent" -> state[w].user_query # ""
         [] pc[w] = "response_agent" -> ResponseGenerates(state[w])
         [] OTHER -> FALSE
    /\ EndTurn(w, "generation_error", pc[w])
    /\ messages' = InsertMessage(messages, state[w].session_id,
                                 [role |-> "user",
                                  content |-> state[w].user_query,
                                  timestamp |-> Now, token_count |-> 0])
    /\ UNCHANGED <<session_summaries, txn, trigger_checks>>

\* The generation service fails (llm.invoke raises): nothing catches it, the
\* error leaves graph.run and the chat-input handler.
GenerationFailure(w) ==
    /\ CASE pc[w] = "summarizer_agent" -> state[w].messages # <<>>
         [] pc[w] = "query_agent" -> state[w].user_query # ""
         [] pc[w] = "response_agent" -> ResponseGenerates(state[w])
         [] OTHER -> FALSE
    /\ EndTurn(w, "generation_error", pc[w])
    /\ UNCHANGED <<messages, session_summaries, txn, trigger_checks>>

\* The message app.py builds: token_count is count_message_tokens of it.
NewMessage(role, content, timestamp) ==
    LET m == [role |-> role, content |-> content, timestamp |-> timestamp,
              token_count |-> 0]
    IN  [m EXCEPT !.token_count = count_message_tokens(m)]

\* app.py main: the user message is saved after the pipeline returned.
SaveUserMessage(w) ==
    /\ pc[w] = "save_user_message"
    /\ txn = None
    /\ LET saved == InsertMessage(messages, state[w].session_id,
                                  NewMessage("user", state[w].user_query, Now))
       IN  /\ messages' = saved
           /\ trigger_checks' = ForgetChecks(messages, saved)
    /\ pc' = [pc EXCEPT ![w] = "save_assistant_message"]
    /\ UNCHANGED <<session_summaries, txn, state, locals, llm_calls, outcome>>

\* app.py main: the assistant message is saved last, its timestamp read
\* a few statements after that of the user message; the handler ends.
SaveAssistantMessage(w) ==
    /\ pc[w] = "save_assistant_message"
    /\ txn = None
    /\ \E timestamp \in NowOrSameInstant :
           LET saved == InsertMessage(messages, state[w].session_id,
                                      NewMessage("assistant",
                                                 state[w].final_response,
                                                 timestamp))
           IN  /\ messages' = saved
               /\ trigger_checks' = ForgetChecks(messages, saved)
    /\ EndTurn(w, "ok", "")
    /\ UNCHANGED <<session_summaries, txn>>

WriteSteps ==
    {"save_summary_insert", "save_summary_update", "save_summary_commit",
     "mark_messages", "save_user_message", "save_assistant_message"}

\* Mutant: the pending writes are kept when the transaction fails.
RollbackKeepsPending(committed, pending) == pending

\* Database._get_connection, "except Exception": conn.rollback() leaves the
\* committed table as it was.
Rollback(committed, pending) == committed

\* A storage operation of worker w raises: _get_connection rolls the open
\* transaction back and re-raises, and the error leaves the handler.
StorageFailure(w) ==
    /\ pc[w] \in WriteSteps
    /\ IF txn = None THEN TRUE ELSE txn[1].owner = w
    /\ messages' =
           IF txn = None THEN messages ELSE Rollback(messages, txn[1].messages)
    /\ session_summaries' =
           IF txn = None THEN session_summaries
           ELSE Rollback(session_summaries, txn[1].session_summaries)
    /\ txn' = None
    /\ EndTurn(w, "storage_error", pc[w])
    /\ UNCHANGED trigger_checks

\* Database.clear_session / delete_session, from the sidebar buttons: the
\* rows of the session leave both tables in one transaction.
DeleteSession(w, s) ==
    /\ pc[w] = "idle"
    /\ txn = None
    /\ SessionRows(messages, s) # <<>> \/ SessionRows(session_summaries, s) # <<>>
    /\ messages' = DeleteSessionRows(messages, s)
    /\ session_summaries' = DeleteSessionRows(session_summaries, s)
    /\ trigger_checks' = [trigger_checks EXCEPT ![s] = <<>>]
    /\ UNCHANGED <<txn, pc, state, locals, llm_calls, outcome>>

Next ==
    \E w \in Workers :
        \/ \E s \in Sessions, q \in Queries : SubmitQuery(w, s, q)
        \/ ContextAgent(w)
        \/ SummarizerInvoke(w)
        \/ SummarizerRange(w)
        \/ SaveSummaryInsert(w)
        \/ SaveSummaryUpdate(w)
        \/ SaveSummaryCommit(w)
        \/ MarkMessagesAsSummarized(w)
        \/ QueryAgent(w)
        \/ ResponseAgent(w)
        \/ GenerationFailure(w)
        \/ SaveUserMessage(w)
        \/ SaveAssistantMessage(w)
        \/ StorageFailure(w)
        \/ \E s \in Sessions : DeleteSession(w, s)

\* Turns are serialized: one worker, one turn in flight.
Spec == Init /\ [][Next]_vars

\* ----------------------------------------------------------------- claims

\* The full ordered log of session s, as committed.
Log(s) == OrderByTimestampAsc(SessionRows(messages, s))

\* Positions (1-based) of the archived rows in the log of session s.
ArchivedPositions(s) ==
    LET log == Log(s)
    IN  {i \in 1..Len(log) : log[i].is_summarized = 1}

\* Sum over the committed, unarchived rows of session s of content tokens,
\* role tokens and the structural overhead.
RECURSIVE LiveTokenSum(_, _)
LiveTokenSum(rows, s) ==
    IF rows = <<>> THEN 0
    ELSE (IF rows[1].session_id = s /\ rows[1].is_summarized = 0
          THEN count_tokens(rows[1].content) + count_tokens(rows[1].role)
                   + MessageOverhead
          ELSE 0)
         + LiveTokenSum(Tail(rows), s)

\* C1. Threshold correctness: after the trigger check the turn is at the
\* summarizer exactly when the sum over the session's unarchived messages
\* of (content tokens + role tokens + 4) is strictly greater than the
\* threshold; with a sum equal to or below the threshold it goes straight
\* to the query agent.
C1_ThresholdCorrectness ==
    \A w \in Workers :
        LET live == LiveTokenSum(messages, state[w].session_id)
        IN  /\ pc[w] = "summarizer_agent" => live > TokenThreshold
            /\ (pc[w] = "query_agent" /\ state[w].session_summary = None)
                   => live <= TokenThreshold
            /\ pc[w] \in {"summarizer_agent", "query_agent"}
                   /\ state[w].session_summary = None
                   => state[w].total_tokens = live

\* C1 witness: a turn whose unarchived messages sum to exactly the
\* threshold was routed past the summarizer, in a session in which an
\* earlier turn was routed to it.
C1_Witness ==
    \E w \in Workers :
        /\ pc[w] = "query_agent"
        /\ state[w].session_summary = None
        /\ LiveTokenSum(messages, state[w].session_id) = TokenThreshold
        /\ ArchivedPositions(state[w].session_id) # {}

\* C2. Range contiguity: consecutive stored summaries of a session satisfy
\* summary[i+1].from_index = summary[i].to_index + 1.
C2_RangeContiguity ==
    \A s \in Sessions :
        LET sums == get_all_summaries(session_summaries, s)
        IN  \A i \in 1..(Len(sums) - 1) :
                sums[i + 1].message_range_summarized.from_index
                    = sums[i].message_range_summarized.to_index + 1

\* C2 witness: a session with two stored summaries.
C2_Witness ==
    \E s \in Sessions : Len(get_all_summaries(session_summaries, s)) >= 2

\* The ranges of the stored summaries of session s, oldest first.
StoredRanges(s) ==
    LET sums == get_all_summaries(session_summaries, s)
    IN  [i \in 1..Len(sums) |-> sums[i].message_range_summarized]

\* Position p (1-based) of the log lies in the range r (0-based, inclusive).
InRange(p, r) == r.from_index <= p - 1 /\ p - 1 <= r.to_index

\* C3. Compaction persistence is atomic: in every committed state of the
\* store (what any reader sees, also while the compaction write is in
\* progress) every stored summary has all the messages of its range present
\* and archived, and every archived message lies in the range of a stored
\* summary.
C3_AtomicCompaction ==
    \A s \in Sessions :
        LET ranges == StoredRanges(s)
            archived == ArchivedPositions(s)
            n == Len(Log(s))
        IN  /\ \A k \in 1..Len(ranges) :
                   \A p \in 1..n :
                       InRange(p, ranges[k]) => p \in archived
            /\ \A k \in 1..Len(ranges) :
                   /\ ranges[k].from_index <= ranges[k].to_index
                   /\ ranges[k].to_index < n
            /\ \A p \in archived :
                   \E k \in 1..Len(ranges) : InRange(p, ranges[k])

\* C3 witness: the compaction write is in progress with both of its writes
\* pending, in a session that already holds a committed summary.
C3_Witness ==
    \E w \in Workers :
        /\ pc[w] = "save_summary_commit"
        /\ txn # None
        /\ txn[1].session_summaries # session_summaries
        /\ txn[1].messages # messages
        /\ Len(StoredRanges(state[w].session_id)) >= 1

SaveSummarySteps ==
    {"save_summary_insert", "save_summary_update", "save_summary_commit"}

\* C4. A storage failure during the compaction write (the transaction of
\* save_summary) leaves both tables as they were before the write, with no
\* transaction open, and the error leaves the handler.
C4_FailureRollsBack ==
    [][\A w \in Workers :
           (pc[w] \in SaveSummarySteps /\ pc'[w] = "idle")
               => /\ messages' = locals[w].before[1].messages
                  /\ session_summaries' = locals[w].before[1].session_summaries
                  /\ txn' = None
                  /\ outcome'[w] = Outcome("storage_error", pc[w])]_vars

\* C4 witness: the write failed after its INSERT and its UPDATE, and the
\* store holds unarchived messages and no summary.
C4_Witness ==
    \E w \in Workers :
        /\ pc[w] = "idle"
        /\ outcome[w] = Outcome("storage_error", "save_summary_commit")
        /\ session_summaries = <<>>
        /\ messages # <<>>
        /\ \A i \in 1..Len(messages) : messages[i].is_summarized = 0

\* C5. The range recorded by a compaction is absolute: from_index is the
\* length of the full log minus the number of unarchived messages merged,
\* to_index is the length minus one, and the messages at those positions of
\* the full ordered log are exactly the unarchived messages given to the
\* summarizer.
C5_AbsoluteRange ==
    \A w \in Workers :
        pc[w] \in SaveSummarySteps =>
            LET s == state[w].session_id
                r == locals[w].summary_output[1].message_range_summarized
                fed == state[w].messages
            IN  /\ r.from_index = Len(Log(s)) - Len(fed)
                /\ r.to_index = Len(Log(s)) - 1
                /\ fed = [i \in 1..Len(fed) |->
                              Message(Log(s)[r.from_index + i])]
                /\ \A p \in 1..Len(Log(s)) :
                       InRange(p, r) <=> Log(s)[p].is_summarized = 0

\* C5 witness: a compaction whose range does not start at 0.
C5_Witness ==
    \E w \in Workers :
        /\ pc[w] = "save_summary_insert"
        /\ locals[w].summary_output[1].message_range_summarized.from_index > 0

\* C6. The archived messages of a session are the prefix of its log covered
\* by the stored summaries: none when there is no summary, and otherwise the
\* first summary starts at 0 and the latest ends at the number of archived
\* messages minus one.
C6_ArchivedPrefix ==
    \A s \in Sessions :
        LET archived == ArchivedPositions(s)
            n == Cardinality(archived)
            r == StoredRanges(s)
        IN  /\ archived = 1..n
            /\ IF r = <<>> THEN n = 0
               ELSE /\ r[1].from_index = 0
                    /\ r[Len(r)].to_index = n - 1

\* C6 witness: two summaries, archived messages and unarchived ones.
C6_Witness ==
    \E s \in Sessions :
        /\ Len(StoredRanges(s)) = 2
        /\ Cardinality(ArchivedPositions(s)) < Len(Log(s))
        /\ pc = [w \in Workers |-> "idle"]

\* C7. A compaction covers only messages stored before the turn's query
\* arrived: the range a running turn records ends before the first position
\* the turn writes to, every message at or after that position is
\* unarchived, and the two messages a completed turn stored are unarchived
\* when it ends.
C7_CurrentTurnNotCompacted ==
    \A w \in Workers :
        /\ pc[w] # "idle" =>
               LET s == state[w].session_id
                   first == locals[w].first_index
               IN  /\ \A p \in 1..Len(Log(s)) :
                          p > first => Log(s)[p].is_summarized = 0
                   /\ locals[w].summary_output # None =>
                          locals[w].summary_output[1]
                              .message_range_summarized.to_index < first
                   /\ \A k \in 1..Len(StoredRanges(s)) :
                          StoredRanges(s)[k].to_index < first
                   /\ txn # None =>
                          \A i \in 1..Len(txn[1].messages) :
                              txn[1].messages[i].is_summarized = 1
                                  => \E p \in 1..first :
                                         Log(s)[p].id = txn[1].messages[i].id
        /\ (pc[w] = "idle" /\ outcome[w].kind = "ok") =>
               \A s \in Sessions :
                   \A p \in 1..Len(Log(s)) :
                       p > Len(Log(s)) - 2 => Log(s)[p].is_summarized = 0

\* C7 witness: a turn that compacted has stored its user message.
C7_Witness ==
    \E w \in Workers :
        /\ pc[w] = "save_assistant_message"
        /\ state[w].session_summary # None
        /\ Len(Log(state[w].session_id)) = locals[w].first_index + 1

AfterSaveSummary ==
    {"mark_messages", "query_agent", "response_agent", "save_user_message",
     "save_assistant_message"}

\* The summarizer of the running turn of w was given a malformed payload.
MalformedSummaryReceived(w) ==
    /\ locals[w].response # None
    /\ locals[w].response[1] \in MalformedSummaryResponses

\* C8. When the generation service returns a malformed summary payload the
\* compaction keeps the all-empty SessionSummary, stores it with the range,
\* archives the range, and the turn goes on to the query agent and to a
\* response: no parse error ever leaves the handler.
C8_FailSoftParsing ==
    \A w \in Workers :
        /\ outcome[w].kind # "parse_error"
        /\ MalformedSummaryReceived(w) =>
               LET s == state[w].session_id
               IN  /\ locals[w].session_summary = Some(EmptySessionSummary)
                   /\ pc[w] # "idle"
                   /\ pc[w] \in AfterSaveSummary =>
                          LET latest == get_latest_summary(session_summaries, s)
                          IN  /\ latest # None
                              /\ latest = locals[w].summary_output
                              /\ latest[1].session_summary = EmptySessionSummary
                              /\ \A p \in 1..Len(Log(s)) :
                                     InRange(p, latest[1]
                                                    .message_range_summarized)
                                         => Log(s)[p].is_summarized = 1
                   /\ pc[w] \in {"save_user_message", "save_assistant_message"}
                          => state[w].final_response # ""

\* C8 witness: a turn whose summary payload was schema-invalid JSON has
\* its response and an empty summary stored.
C8_Witness ==
    \E w \in Workers :
        /\ pc[w] = "save_assistant_message"
        /\ MalformedSummaryReceived(w)
        /\ locals[w].response[1].json
        /\ state[w].session_summary # None
        /\ state[w].session_summary[1].session_summary = EmptySessionSummary

\* C9. The trigger check (context_agent) changes no row of either table,
\* its live_tokens is the sum over the unarchived rows only, and two checks
\* in a row on an unchanged store return the same live_tokens.
C9_IdempotentTriggerCheck ==
    [][\A w \in Workers :
           pc[w] = "context_agent" =>
               LET s == state[w].session_id
               IN  /\ messages' = messages
                   /\ session_summaries' = session_summaries
                   /\ pc'[w] # "context_agent" =>
                          /\ state'[w].total_tokens = LiveTokenSum(messages, s)
                          /\ Len(trigger_checks[s]) >= 1 =>
                                 state'[w].total_tokens
                                     = trigger_checks[s][Len(trigger_checks[s])]
                          /\ Len(trigger_checks'[s]) = 2 =>
                                 trigger_checks'[s][1] = trigger_checks'[s][2]]_vars

\* C9 witness: two checks in a row on a session with archived and with
\* unarchived messages.
C9_Witness ==
    \E s \in Sessions :
        /\ Len(trigger_checks[s]) = 2
        /\ trigger_checks[s][2] > 0
        /\ ArchivedPositions(s) # {}

\* --------------------------------------------------- the response stage

\* The state after context_agent on a session without messages.
InitResponse ==
    /\ messages = <<>>
    /\ session_summaries = <<>>
    /\ txn = None
    /\ \E s \in Sessions, q \in Queries :
           /\ state = [w \in Workers |-> InitialState(s, q)]
           /\ trigger_checks = [t \in Sessions |->
                                    IF t = s THEN <<0>> ELSE <<>>]
    /\ pc = [w \in Workers |-> "query_agent"]
    /\ locals = [w \in Workers |-> NoLocals]
    /\ outcome = [w \in Workers |-> Outcome("running", "")]
    /\ llm_calls = [w \in Workers |-> <<>>]

NextResponse ==
    \E w \in Workers :
        \/ QueryAgentAnyShape(w)
        \/ ResponseAgent(w)
        \/ GenerationFailure(w)
        \/ SaveUserMessage(w)
        \/ SaveAssistantMessage(w)

\* One turn from the query agent on, over every shape of QueryUnderstanding
\* the generation service can cause.
SpecResponse == InitResponse /\ [][NextResponse]_vars

\* The generation calls response_agent made in the turn of w.
AnswerCalls(w) ==
    Cardinality({i \in 1..Len(llm_calls[w]) : llm_calls[w][i] = "response_agent"})

\* is_ambiguous is true, rewritten_query is absent or empty, and
\* clarifying_questions is non-empty.
HardStopCondition(qu) ==
    /\ qu.is_ambiguous = TRUE
    /\ IF qu.rewritten_query = None THEN TRUE ELSE qu.rewritten_query[1] = ""
    /\ Len(qu.clarifying_questions) > 0

\* C10. With a QueryUnderstanding present, the response stage returns the
\* clarification text and makes no generation call exactly when the
\* hard-stop condition holds; on every other QueryUnderstanding it makes
\* exactly one generation call and returns its answer.
C10_HardStop ==
    \A w \in Workers :
        (pc[w] = "save_user_message" /\ state[w].query_understanding # None) =>
            LET qu == state[w].query_understanding[1]
                clarified ==
                    state[w].final_response
                        = ClarificationText(qu.clarifying_questions)
            IN  /\ HardStopCondition(qu) <=> clarified
                /\ HardStopCondition(qu) => AnswerCalls(w) = 0
                /\ ~HardStopCondition(qu) =>
                       /\ AnswerCalls(w) = 1
                       /\ state[w].final_response \in Answers

\* C10 witness: a hard stop on an empty (not absent) rewritten_query.
C10_Witness ==
    \E w \in Workers :
        /\ pc[w] = "save_user_message"
        /\ state[w].query_understanding # None
        /\ state[w].query_understanding[1].rewritten_query = Some("")
        /\ state[w].final_response
               = ClarificationText(
                     state[w].query_understanding[1].clarifying_questions)
        /\ AnswerCalls(w) = 0

\* The questions numbered from k, one per line, in the order given.
RECURSIVE NumberedFrom(_, _)
NumberedFrom(k, questions) ==
    IF questions = <<>> THEN ""
    ELSE ToString(k) \o ". " \o Head(questions)
             \o (IF Len(questions) = 1 THEN ""
                 ELSE "\n" \o NumberedFrom(k + 1, Tail(questions)))

\* The turn of w took the hard-stop branch of the response stage.
OnHardStop(w) ==
    /\ pc[w] = "save_user_message"
    /\ state[w].query_understanding # None
    /\ HardStopCondition(state[w].query_understanding[1])

CompactionSteps ==
    <<"summarizer_agent", "summarizer_range", "save_summary_insert",
      "save_summary_update", "save_summary_commit", "mark_messages">>

\* The position of a step in a turn: the handler is idle (0), then
\* check_compaction, the steps of compaction, disambiguate, respond, and
\* after END the two saves of the handler.
StageRank(p) ==
    CASE p = "idle" -> 0
      [] p = "context_agent" -> 1
      [] p \in Range(CompactionSteps) ->
             1 + CHOOSE i \in 1..Len(CompactionSteps) : CompactionSteps[i] = p
      [] p = "query_agent" -> 8
      [] p = "response_agent" -> 9
      [] p = "save_user_message" -> 10
      [] p = "save_assistant_message" -> 11

\* C12. Pipeline order: a turn starts at check_compaction; from there it
\* enters compaction exactly when the live tokens are over the threshold
\* and disambiguate otherwise; compaction is followed by disambiguate,
\* disambiguate by respond, respond by END; a step never leads to an
\* earlier step or to itself, and a pipeline stage is left early only by an
\* error.
C12_PipelineOrder ==
    [][\A w \in Workers :
           pc'[w] # pc[w] =>
               /\ pc'[w] # "idle" => StageRank(pc'[w]) > StageRank(pc[w])
               /\ pc[w] = "idle" => pc'[w] = "context_agent"
               /\ pc[w] = "context_agent" =>
                      /\ pc'[w] \in {"summarizer_agent", "query_agent"}
                      /\ pc'[w] = "summarizer_agent"
                             <=> LiveTokenSum(messages, state[w].session_id)
                                     > TokenThreshold
               /\ pc[w] \in Range(CompactionSteps) =>
                      pc'[w] \in Range(CompactionSteps) \cup {"query_agent", "idle"}
               /\ pc[w] = "query_agent" => pc'[w] \in {"response_agent", "idle"}
               /\ pc[w] = "response_agent" =>
                      pc'[w] \in {"save_user_message", "idle"}
               /\ (pc[w] \in Range(CompactionSteps)
                           \cup {"context_agent", "query_agent", "response_agent"}
                       /\ pc'[w] = "idle")
                      => outcome'[w].kind \notin {"ok", "running", "none"}]_vars

\* C12 witness: a turn at END whose three stages after check_compaction
\* each made their generation call, once and in order.
C12_Witness ==
    \E w \in Workers :
        /\ pc[w] = "save_user_message"
        /\ llm_calls[w] = <<"summarizer_agent", "query_agent", "response_agent">>

\* C13. When compaction ran in a turn, it has completed before
\* disambiguation begins: at the start of disambiguation no write is
\* pending, the summary of the turn is stored, the archived rows are the
\* rows up to the end of its range and no row is left unarchived; and the
\* latest summary the disambiguator then reads is the one just created.
C13_CompactionBeforeDisambiguation ==
    \A w \in Workers :
        LET s == state[w].session_id
        IN  /\ (pc[w] = "query_agent" /\ state[w].session_summary # None) =>
                   LET r == state[w].session_summary[1].message_range_summarized
                   IN  /\ txn = None
                       /\ state[w].session_summary = locals[w].summary_output
                       /\ \E k \in 1..Len(StoredRanges(s)) :
                              /\ StoredRanges(s)[k] = r
                              /\ k = Len(StoredRanges(s))
                       /\ ArchivedPositions(s) = 1..(r.to_index + 1)
                       /\ r.to_index + 1 = Len(Log(s))
            /\ (pc[w] \in {"response_agent", "save_user_message"}
                    /\ state[w].session_summary # None
                    /\ state[w].query_understanding # None) =>
                   /\ locals[w].summary = state[w].session_summary
                   /\ locals[w].summary = locals[w].summary_output

\* C13 witness: the disambiguator has read the summary of the second
\* compaction of the session, created in the same turn.
C13_Witness ==
    \E w \in Workers :
        /\ pc[w] = "response_agent"
        /\ state[w].session_summary # None
        /\ locals[w].summary = state[w].session_summary
        /\ Len(StoredRanges(state[w].session_id)) = 2

\* C14. A failure of the generation service in the compaction stage leaves
\* the handler as a generation error, and the turn has written nothing:
\* both tables are as they were when the query arrived (no summary stored,
\* no flag changed, no message of the turn appended) and no write is
\* pending.
C14_CompactionGenerationFailure ==
    [][\A w \in Workers :
           (pc[w] = "summarizer_agent" /\ pc'[w] = "idle") =>
               LET s == state[w].session_id
               IN  /\ outcome'[w] = Outcome("generation_error", "summarizer_agent")
                   /\ messages' = messages
                   /\ session_summaries' = session_summaries
                   /\ txn' = None
                   /\ Len(SessionRows(messages', s)) = locals[w].first_index
                   /\ get_messages(messages', s, TRUE) = state[w].messages
                   /\ \A k \in 1..Len(StoredRanges(s)) :
                          StoredRanges(s)[k].to_index
                              < locals[w].first_index - Len(state[w].messages)]_vars

\* C14 witness: the generation call of a first compaction failed; the log
\* holds its messages unarchived and no summary.
C14_Witness ==
    \E w \in Workers :
        /\ pc[w] = "idle"
        /\ outcome[w] = Outcome("generation_error", "summarizer_agent")
        /\ session_summaries = <<>>
        /\ messages # <<>>
        /\ \A i \in 1..Len(messages) : messages[i].is_summarized = 0

\* The recent-window text of session s: the last RecentWindow messages of
\* the log, oldest first, one line "ROLE: content" each, or the fixed text
\* when the log is empty.
RecentWindowText(s) ==
    LET n == Len(Log(s))
        from == IF n > RecentWindow THEN n - RecentWindow + 1 ELSE 1
        lines == [i \in 1..(n - from + 1) |->
                      Upper(Log(s)[from + i - 1].role) \o ": "
                          \o Log(s)[from + i - 1].content]
    IN  IF n = 0 THEN "No previous conversation." ELSE JoinLines(lines)

\* The disambiguator of the running turn of w was given a payload that
\* cannot be parsed or validated.
MalformedQueryReceived(w) ==
    /\ locals[w].query_response # None
    /\ locals[w].query_response[1] \in MalformedQueryResponses

\* C15. When the disambiguation payload cannot be parsed or validated, the
\* QueryUnderstanding has original_query equal to the user's query,
\* is_ambiguous false, no rewritten query, empty lists and
\* final_augmented_context equal to the recent-window text; the turn goes
\* on, and the response stage makes its one generation call for the
\* original query.
C15_DisambiguatorFallback ==
    \A w \in Workers :
        MalformedQueryReceived(w) =>
            /\ pc[w] \in {"response_agent", "save_user_message",
                          "save_assistant_message"}
            /\ state[w].query_understanding # None
            /\ LET qu == state[w].query_understanding[1]
               IN  /\ qu.original_query = state[w].user_query
                   /\ qu.is_ambiguous = FALSE
                   /\ qu.rewritten_query = None
                   /\ qu.possible_interpretations = <<>>
                   /\ qu.needed_context_from_memory = <<>>
                   /\ qu.clarifying_questions = <<>>
                   /\ pc[w] \in {"response_agent", "save_user_message"} =>
                          qu.final_augmented_context
                              = RecentWindowText(state[w].session_id)
                   /\ effective_query(qu) = state[w].user_query
                   /\ pc[w] \in {"save_user_message", "save_assistant_message"} =>
                          /\ AnswerCalls(w) = 1
                          /\ state[w].final_response \in Answers

\* C15 witness: the answer of a turn whose payload was schema-invalid JSON,
\* in a session with earlier messages.
C15_Witness ==
    \E w \in Workers :
        /\ pc[w] = "save_user_message"
        /\ MalformedQueryReceived(w)
        /\ locals[w].query_response[1].json
        /\ Log(state[w].session_id) # <<>>
        /\ state[w].final_response \in Answers

\* C16. Each new summary supersedes the previous one: the latest summary of
\* a session is the last element of all its summaries (and absent when
\* there is none), and right after the compaction write it is the record
\* just written.
C16_LatestSupersedes ==
    /\ \A s \in Sessions :
           LET all == get_all_summaries(session_summaries, s)
           IN  get_latest_summary(session_summaries, s)
                   = IF all = <<>> THEN None ELSE Some(all[Len(all)])
    /\ \A w \in Workers :
           pc[w] = "mark_messages" =>
               get_latest_summary(session_summaries, state[w].session_id)
                   = locals[w].summary_output

\* C16 witness: right after the write of a second summary whose content
\* differs from the first.
C16_Witness ==
    \E w \in Workers :
        /\ pc[w] = "mark_messages"
        /\ LET all == get_all_summaries(session_summaries, state[w].session_id)
           IN  /\ Len(all) = 2
               /\ all[1].session_summary # all[2].session_summary

\* The messages of session s at the positions of range r.
Transcript(s, r) ==
    {Log(s)[p] : p \in {q \in 1..Len(Log(s)) : InRange(q, r)}}

\* A message of the transcript answers the open question.
Addressed(transcript, question) ==
    \E m \in transcript : m.content = "about " \o question

\* A todo derived from the open question.
DerivedTodo(question) == "resolve: " \o question

\* C17. Rolling merge preserves unresolved items: an open question of a
\* summary that the transcript of the next compaction does not address is
\* still an open question (or a todo derived from it) of the summary that
\* compaction stores, whatever the generation call returned.
C17_RollingMergePreserves ==
    \A s \in Sessions :
        LET all == get_all_summaries(session_summaries, s)
        IN  \A i \in 1..(Len(all) - 1) :
                \A question \in Range(all[i].session_summary.open_questions) :
                    ~Addressed(Transcript(s, all[i + 1].message_range_summarized),
                               question)
                        => \/ question
                                  \in Range(all[i + 1].session_summary
                                                .open_questions)
                           \/ DerivedTodo(question)
                                  \in Range(all[i + 1].session_summary.todos)

\* Row new of the messages table is row old with at most its archived flag
\* changed.
SameMessage(old, new) == [new EXCEPT !.is_summarized = old.is_summarized] = old

\* C18. A stored message changes only in its archived flag: a new row is
\* unarchived; a row that stays keeps its session, role, content, timestamp
\* and token_count; its flag never goes back to false, and it goes to true
\* only in a step that also stores a summary whose range covers the row; a
\* row leaves the table only when its whole session is deleted.
C18_MessageFrame ==
    [][/\ \A j \in 1..Len(messages') :
              (\A i \in 1..Len(messages) : messages[i].id # messages'[j].id)
                  => messages'[j].is_summarized = 0
       /\ \A i \in 1..Len(messages) :
              \/ /\ \A j \in 1..Len(messages') : messages'[j].id # messages[i].id
                 /\ SessionRows(messages', messages[i].session_id) = <<>>
                 /\ SessionRows(session_summaries', messages[i].session_id) = <<>>
              \/ \E j \in 1..Len(messages') :
                     /\ messages'[j].id = messages[i].id
                     /\ SameMessage(messages[i], messages'[j])
                     /\ messages'[j].is_summarized >= messages[i].is_summarized
                     /\ messages'[j].is_summarized > messages[i].is_summarized =>
                            LET s == messages[i].session_id
                                log == OrderByTimestampAsc(SessionRows(messages', s))
                                added == {k \in 1..Len(session_summaries') :
                                             \A h \in 1..Len(session_summaries) :
                                                 session_summaries[h].id
                                                     # session_summaries'[k].id}
                            IN  \E k \in added :
                                    \E p \in 1..Len(log) :
                                        /\ log[p].id = messages[i].id
                                        /\ session_summaries'[k].session_id = s
                                        /\ session_summaries'[k].from_message_index
                                               <= p - 1
                                        /\ p - 1
                                               <= session_summaries'[k].to_message_index
      ]_vars

\* C18 witness: compaction has returned in a turn: the rows of its range
\* were archived by the write and then marked once more.
C18_Witness ==
    \E w \in Workers :
        /\ pc[w] = "query_agent"
        /\ state[w].session_summary # None
        /\ ArchivedPositions(state[w].session_id) # {}

\* The full ordered log of session s after the step.
LogAfter(s) == OrderByTimestampAsc(SessionRows(messages', s))

\* Every row of session s that the step keeps is at the same index of the
\* log before and after the step.
IndicesKept(s) ==
    \/ messages' = messages
    \/ LET old == Log(s)
           new == LogAfter(s)
       IN  \A p \in 1..Len(old) :
               \A q \in 1..Len(new) :
                   new[q].id = old[p].id => q = p

\* The log of session s is ordered by timestamp, rows of equal timestamp in
\* the order of their insertion.
OrderedByTimestampThenInsertion(s) ==
    LET log == Log(s)
    IN  \A p \in 1..Len(log) :
            \A q \in 1..Len(log) :
                p < q =>
                    \/ log[p].timestamp < log[q].timestamp
                    \/ /\ log[p].timestamp = log[q].timestamp
                       /\ log[p].id < log[q].id

C20_SummariesAppendOnly ==
    [][/\ \/ session_summaries' = session_summaries
          \/ \E w \in Workers :
                 /\ pc[w] = "save_summary_commit"
                 /\ pc'[w] = "mark_messages"
                 /\ Len(session_summaries') = Len(session_summaries) + 1
                 /\ SubSeq(session_summaries', 1, Len(session_summaries))
                        = session_summaries
                 /\ SessionMemoryOutputOfRow(
                        session_summaries'[Len(session_summaries')])
                        = locals[w].summary_output[1]
          \/ \E s \in Sessions :
                 /\ session_summaries' = DeleteSessionRows(session_summaries, s)
                 /\ SessionRows(messages', s) = <<>>
                 /\ \A w \in Workers : pc[w] = "idle"
       /\ \A w \in Workers :
              (pc[w] = "save_summary_commit" /\ pc'[w] = "mark_messages")
                  => Len(session_summaries') = Len(session_summaries) + 1
      ]_vars

\* C20 witness: the second compaction of a session has returned, and the
\* record of the first, of different content, is still stored.
C20_Witness ==
    \E w \in Workers :
        /\ pc[w] = "query_agent"
        /\ state[w].session_summary # None
        /\ Len(session_summaries) = 2
        /\ session_summaries[1].summary_json # session_summaries[2].summary_json

\* ------------------------------------------------------- concurrent turns

\* Two script runs (browser sessions) at a time, on two session ids; both
\* may be on the same session id (a stored session loaded in two tabs).
ConcurrentWorkers == {"w1", "w2"}

ConcurrentSessions == {"s1", "s2"}

\* The query typed in the concurrent turns.
ConcurrentQuery == "get football data"

\* The disambiguator finds the query clear.
ClearQueryResponses(q) == {QueryObject(q, FALSE, None, Some(<<>>), Some(<<>>))}

\* Rows the turns in flight may still append.
RowsInFlight == 2 * Cardinality({w \in ConcurrentWorkers : pc[w] # "idle"})

InitConcurrent ==
    /\ messages = <<>>
    /\ session_summaries = <<>>
    /\ txn = None
    /\ pc = [w \in ConcurrentWorkers |-> "idle"]
    /\ state = [w \in ConcurrentWorkers |-> NoState]
    /\ locals = [w \in ConcurrentWorkers |-> NoLocals]
    /\ outcome = [w \in ConcurrentWorkers |-> Outcome("none", "")]
    /\ llm_calls = [w \in ConcurrentWorkers |-> <<>>]
    /\ trigger_checks = [s \in ConcurrentSessions |-> <<>>]

\* The steps of the turns of both workers interleave freely; the store
\* admits one write transaction at a time.  Every call to the generation
\* service and to the store succeeds (their failures are part of Spec), no
\* turn starts once its rows could get an id above MaxMessages, and a
\* session is deleted while no turn is running on it.
NextConcurrent ==
    \E w \in ConcurrentWorkers :
        \/ \E s \in ConcurrentSessions :
               /\ NextRowId(messages) + RowsInFlight + 1 <= MaxMessages
               /\ SubmitQuery(w, s, ConcurrentQuery)
        \/ ContextAgent(w)
        \/ SummarizerInvokeOn(w, ValidSummaryResponses)
        \/ SummarizerRange(w)
        \/ SaveSummaryInsert(w)
        \/ SaveSummaryUpdate(w)
        \/ SaveSummaryCommit(w)
        \/ MarkMessagesAsSummarized(w)
        \/ QueryAgentOn(w, ClearQueryResponses(state[w].user_query))
        \/ ResponseAgent(w)
        \/ SaveUserMessage(w)
        \/ SaveAssistantMessage(w)
        \/ \E s \in ConcurrentSessions :
               /\ \A v \in ConcurrentWorkers : state[v].session_id # s
               /\ DeleteSession(w, s)

SpecConcurrent == InitConcurrent /\ [][NextConcurrent]_vars

\* The steps of a turn at which the range of its compaction is recorded.
RangeRecorded ==
    {"save_summary_insert", "save_summary_update", "save_summary_commit",
     "mark_messages"}

\* 0 <= from_index <= to_index
WellFormedRange(from_index, to_index) ==
    0 <= from_index /\ from_index <= to_index

\* C21. Every MessageRange satisfies 0 <= from_index <= to_index: the range
\* of every summary stored, of every summary pending in the open
\* transaction and of every compaction a turn is writing; a turn past the
\* first step of the summarizer compacts a set of unarchived messages that
\* is not empty, and its range has one position for each of them.  This
\* holds for turns that run one after the other and for turns that race.
C21_RangeWellFormed ==
    /\ \A i \in 1..Len(session_summaries) :
           WellFormedRange(session_summaries[i].from_message_index,
                           session_summaries[i].to_message_index)
    /\ txn # None =>
           \A i \in 1..Len(txn[1].session_summaries) :
               WellFormedRange(txn[1].session_summaries[i].from_message_index,
                               txn[1].session_summaries[i].to_message_index)
    /\ \A w \in ConcurrentWorkers :
           /\ pc[w] \in Range(CompactionSteps) \ {"summarizer_agent"} =>
                  state[w].messages # <<>>
           /\ pc[w] \in RangeRecorded =>
                  LET r == locals[w].summary_output[1].message_range_summarized
                  IN  /\ WellFormedRange(r.from_index, r.to_index)
                      /\ r.to_index - r.from_index + 1 = Len(state[w].messages)

\* C21 witness: a turn is writing its compaction while the summary of a
\* turn that raced with it on the same session is already stored.
C21_Witness ==
    \E w, v \in ConcurrentWorkers :
        /\ pc[w] = "save_summary_commit"
        /\ txn # None
        /\ Len(txn[1].session_summaries) = Len(session_summaries) + 1
        /\ v # w
        /\ state[v].session_id = state[w].session_id
        /\ pc[v] \in AfterSaveSummary
        /\ locals[v].summary_output # None

\* What a session holds: its message log in order (role, content, token
\* count and archived flag of each message) and its summaries in order
\* (content and range of each).  Row ids and the readings of the clock,
\* which the sessions of one store share, are left out.
SessionView(message_rows, summary_rows, s) ==
    LET log == OrderByTimestampAsc(SessionRows(message_rows, s))
        summaries == OrderByTimestampAsc(SessionRows(summary_rows, s))
    IN  [log |-> [i \in 1..Len(log) |->
                     [role |-> log[i].role, content |-> log[i].content,
                      token_count |-> log[i].token_count,
                      is_summarized |-> log[i].is_summarized]],
         summaries |-> [i \in 1..Len(summaries) |->
                           [summary_json |-> summaries[i].summary_json,
                            from_message_index |->
                                summaries[i].from_message_index,
                            to_message_index |->
                                summaries[i].to_message_index]]]

\* The sessions whose view the step changes.
SessionsChanged ==
    {s \in ConcurrentSessions :
        SessionView(messages', session_summaries', s)
            # SessionView(messages, session_summaries, s)}

\* The view of session s after the writing step of worker w, had the store
\* held the rows of session s and no others.
ViewWrittenAlone(w, s) ==
    LET mine == SessionRows(messages, s)
        sums == SessionRows(session_summaries, s)
        output == locals[w].summary_output[1]
        range == output.message_range_summarized
        saved == Message(messages'[Len(messages')])
    IN  CASE pc[w] = "save_summary_commit" ->
                 SessionView(UpdateSummarized(mine, s, range.from_index,
                                              range.to_index),
                             InsertSummary(sums, s, output), s)
          [] pc[w] = "mark_messages" ->
                 SessionView(UpdateSummarized(mine, s, range.from_index,
                                              range.to_index),
                             sums, s)
          [] pc[w] = "save_user_message" ->
                 SessionView(InsertMessage(mine, s,
                                 NewMessage("user", state[w].user_query,
                                            saved.timestamp)),
                             sums, s)
          [] pc[w] = "save_assistant_message" ->
                 SessionView(InsertMessage(mine, s,
                                 NewMessage("assistant",
                                            state[w].final_response,
                                            saved.timestamp)),
                             sums, s)
          [] OTHER -> SessionView(mine, sums, s)

\* What the reading step of worker w on session s leaves in its state is
\* what it would read from a store holding the rows of session s only.
ReadsOwnSession(w, s) ==
    LET mine == SessionRows(messages, s)
        sums == SessionRows(session_summaries, s)
    IN  CASE pc[w] = "context_agent" ->
                 /\ state'[w].messages = get_messages(mine, s, TRUE)
                 /\ state'[w].total_tokens
                        = TotalTokens(get_messages(mine, s, TRUE))
          [] pc[w] = "summarizer_agent" ->
                 locals'[w].previous_summary = get_latest_summary(sums, s)
          [] pc[w] = "summarizer_range" ->
                 locals'[w].summary_output[1].message_range_summarized
                     = ComputeRange(Len(get_messages(mine, s, FALSE)),
                                    Len(state[w].messages))
          [] pc[w] = "query_agent" ->
                 locals'[w].summary = get_latest_summary(sums, s)
          [] OTHER -> TRUE

\* C22. Turns on different sessions are independent.  Whatever the
\* interleaving, a step changes the log, the archived flags and the
\* summaries of at most one session; the session changed is the one the
\* worker taking the step runs its turn on, and it changes to what the
\* same write gives on a store that holds this session alone; what a step
\* reads is what it would read from such a store; and a delete empties the
\* session it names and changes no other.
C22_SessionsIndependent ==
    [][/\ Cardinality(SessionsChanged) <= 1
       /\ \A s \in SessionsChanged :
              IF pc' = pc
              THEN SessionView(messages', session_summaries', s)
                       = SessionView(<<>>, <<>>, s)
              ELSE \E w \in ConcurrentWorkers :
                       /\ pc'[w] # pc[w]
                       /\ state[w].session_id = s
                       /\ SessionView(messages', session_summaries', s)
                              = ViewWrittenAlone(w, s)
       /\ \A w \in ConcurrentWorkers :
              pc'[w] # pc[w] /\ pc[w] # "idle" =>
                  ReadsOwnSession(w, state[w].session_id)]_vars

\* C22 witness: the compaction of a turn on one session has just been
\* committed while a turn on the other session, which holds messages, is
\* in flight.
C22_Witness ==
    \E w, v \in ConcurrentWorkers :
        /\ pc[w] = "mark_messages"
        /\ pc[v] \in {"summarizer_range", "query_agent", "save_assistant_message"}
        /\ state[v].session_id # state[w].session_id
        /\ SessionRows(messages, state[v].session_id) # <<>>
        /\ SessionRows(session_summaries, state[w].session_id) # <<>>

\* The ranges r and q have a position in common.
Overlap(r, q) == r.from_index <= q.to_index /\ q.from_index <= r.to_index

\* The turn of worker w has computed the range of its compaction.
HasRange(w) ==
    pc[w] \in RangeRecorded \cup AfterSaveSummary
        /\ locals[w].summary_output # None

\* Rows the log of the turn's session held when worker w computed its range.
LogLengthAtRange(w) ==
    Len(SessionRows(locals[w].before[1].messages, state[w].session_id))

\* C23. Two turns on one session are not serialized.  When both were given
\* the same unarchived set by check_compaction and computed their ranges
\* over a log of the same length, the two ranges are the same positions
\* (each turn counts the messages it read, not the messages still
\* unarchived), and once both compactions are committed the session holds
\* two summaries whose ranges overlap: range contiguity is violated.
C23_RacingCompactionsOverlap ==
    \A w, v \in ConcurrentWorkers :
        (/\ w # v
         /\ HasRange(w) /\ HasRange(v)
         /\ state[w].session_id = state[v].session_id
         /\ state[w].messages = state[v].messages
         /\ LogLengthAtRange(w) = LogLengthAtRange(v)) =>
            LET s == state[w].session_id
                r == locals[w].summary_output[1].message_range_summarized
                q == locals[v].summary_output[1].message_range_summarized
                stored == StoredRanges(s)
            IN  /\ Overlap(r, q)
                /\ r = q
                /\ (pc[w] \in AfterSaveSummary /\ pc[v] \in AfterSaveSummary) =>
                       \E i, j \in 1..Len(stored) :
                           /\ i < j
                           /\ Overlap(stored[i], stored[j])
                           /\ stored[j].from_index # stored[i].to_index + 1

\* C23 witness: both racing turns have committed, and two stored summaries
\* of the session cover the same messages.
C23_Witness ==
    \E s \in ConcurrentSessions :
        /\ \E i, j \in 1..Len(StoredRanges(s)) :
               i < j /\ Overlap(StoredRanges(s)[i], StoredRanges(s)[j])
        /\ \E w, v \in ConcurrentWorkers :
               /\ w # v
               /\ state[w].session_id = s /\ state[v].session_id = s
               /\ pc[w] \in AfterSaveSummary /\ pc[v] \in AfterSaveSummary
               /\ locals[w].summary_output # None
               /\ locals[v].summary_output # None

\* The steps of the handler after the pipeline returned.
AfterPipeline == {"save_user_message", "save_assistant_message"}

\* C24. Query selection on the best-effort branch: the query in the
\* generation prompt is rewritten_query when that is present and not
\* empty, and original_query otherwise; a prompt is built exactly when the
\* turn did not take the hard stop.
C24_EffectiveQuery ==
    \A w \in Workers :
        pc[w] \in AfterPipeline =>
            LET qu == state[w].query_understanding[1]
                prompt == locals[w].human_prompt
            IN  /\ (prompt # None) = ~HardStopCondition(qu)
                /\ prompt # None =>
                       IF qu.rewritten_query # None
                              /\ qu.rewritten_query[1] # ""
                       THEN prompt[1].user_query = qu.rewritten_query[1]
                       ELSE prompt[1].user_query = qu.original_query

\* C24 witness: the prompt carries a rewritten query that differs from the
\* original query of an ambiguous request.
C24_Witness ==
    \E w \in Workers :
        /\ pc[w] \in AfterPipeline
        /\ locals[w].human_prompt # None
        /\ state[w].query_understanding[1].is_ambiguous
        /\ state[w].query_understanding[1].rewritten_query
               = Some("fix the login bug")
        /\ locals[w].human_prompt[1].user_query = "fix the login bug"
        /\ state[w].query_understanding[1].original_query # "fix the login bug"

\* C25. Prompt selection on the best-effort branch: the prompt lists the
\* interpretations, numbered, and asks to acknowledge them and to ask which
\* one to pursue exactly when possible_interpretations has more than one
\* entry; with no entry or one entry it asks for a direct answer; both
\* prompts carry final_augmented_context as their context.
C25_PromptSelection ==
    \A w \in Workers :
        (pc[w] \in AfterPipeline /\ locals[w].human_prompt # None) =>
            LET qu == state[w].query_understanding[1]
                prompt == locals[w].human_prompt[1]
            IN  /\ prompt.context = qu.final_augmented_context
                /\ IF Len(qu.possible_interpretations) > 1
                   THEN /\ prompt.interpretations
                               = Some(NumberedFrom(1, qu.possible_interpretations))
                        /\ prompt.request = RequestOptions
                   ELSE /\ prompt.interpretations = None
                        /\ prompt.request = RequestDirectAnswer

\* C25 witness: a prompt for a direct answer built from exactly one
\* interpretation.
C25_Witness ==
    \E w \in Workers :
        /\ pc[w] \in AfterPipeline
        /\ locals[w].human_prompt # None
        /\ Len(state[w].query_understanding[1].possible_interpretations) = 1
        /\ locals[w].human_prompt[1].request = RequestDirectAnswer

\* A compaction ran in the turn of worker w: the summarizer made its
\* generation call.
CompactionRan(w) ==
    \E i \in 1..Len(llm_calls[w]) : llm_calls[w][i] = "summarizer_agent"

\* C26. The composite result of a turn: when the pipeline has returned,
\* the result carries the final response text (the clarification text on
\* the hard stop, the generated answer otherwise), the QueryUnderstanding
\* parsed from the disambiguator's response of this turn, and the
\* compaction output, which is present exactly when a compaction ran in
\* this turn, is then the summary this turn stored, and is absent
\* otherwise, also when the session has earlier summaries.
C26_CompositeResult ==
    \A w \in Workers :
        pc[w] \in AfterPipeline =>
            LET result == state[w]
                s == result.session_id
            IN  /\ result.query_understanding # None
                /\ IF HardStopCondition(result.query_understanding[1])
                   THEN result.final_response
                            = "I need some clarification:\n\n"
                                \o NumberedFrom(1, result.query_understanding[1]
                                                       .clarifying_questions)
                   ELSE result.final_response \in Answers
                /\ pc[w] = "save_user_message" =>
                       result.query_understanding =
                           Some(ParseQueryResponse(
                                    locals[w].query_response[1],
                                    result.user_query,
                                    RecentWindowText(s)))
                /\ (result.session_summary # None) = CompactionRan(w)
                /\ CompactionRan(w) =>
                       /\ result.session_summary = locals[w].summary_output
                       /\ result.session_summary
                              = get_latest_summary(session_summaries, s)
                /\ ~CompactionRan(w) => result.session_summary = None

\* C26 witness: the pipeline has returned without a compaction output in a
\* session that holds an earlier summary.
C26_Witness ==
    \E w \in Workers :
        /\ pc[w] = "save_user_message"
        /\ state[w].session_summary = None
        /\ get_latest_summary(session_summaries, state[w].session_id) # None

\* ---------------------------------------------------------- a long session

\* The turns of one session until its log is longer than the recent window:
\* every call succeeds, the query is clear and the summary well-formed.
NextWindow ==
    \E w \in Workers :
        \/ \E s \in Sessions :
               SubmitQueryUpTo(w, s, ConcurrentQuery, MaxWindowMessages)
        \/ ContextAgent(w)
        \/ SummarizerInvokeOn(w, ValidSummaryResponses)
        \/ SummarizerRange(w)
        \/ SaveSummaryInsert(w)
        \/ SaveSummaryUpdate(w)
        \/ SaveSummaryCommit(w)
        \/ MarkMessagesAsSummarized(w)
        \/ QueryAgentOn(w, ClearQueryResponses(state[w].user_query))
        \/ ResponseAgent(w)
        \/ SaveUserMessage(w)
        \/ SaveAssistantMessage(w)

SpecWindow == Init /\ [][NextWindow]_vars

\* C27. The recent-turn window of the disambiguator is the last
\* RecentWindow (10) messages of the session log, oldest first, or the
\* whole log when it is shorter, whatever their archived state: archived
\* messages, those archived earlier in the same turn included, are in it.
C27_RecentWindow ==
    \A w \in Workers :
        pc[w] = "response_agent" =>
            LET log == Log(state[w].session_id)
                n == Len(log)
                k == IF n > RecentWindow THEN RecentWindow ELSE n
                window == locals[w].recent_messages
            IN  /\ Len(window) = k
                /\ \A i \in 1..k :
                       /\ window[i].role = log[n - k + i].role
                       /\ window[i].content = log[n - k + i].content
                       /\ window[i].timestamp = log[n - k + i].timestamp
                /\ \A i \in 1..(k - 1) :
                       window[i].timestamp <= window[i + 1].timestamp

\* C27 witness: the log is longer than the window, and the window holds
\* messages the compaction of this same turn archived and leaves out the
\* oldest messages of the log.
C27_Witness ==
    \E w \in Workers :
        /\ pc[w] = "response_agent"
        /\ Len(Log(state[w].session_id)) > RecentWindow
        /\ Len(locals[w].recent_messages) = RecentWindow
        /\ CompactionRan(w)
        /\ locals[w].summary_output # None
        /\ LET n == Len(Log(state[w].session_id))
               r == locals[w].summary_output[1].message_range_summarized
           IN  /\ r.from_index + 1 > n - RecentWindow
               /\ Log(state[w].session_id)[r.from_index + 1].is_summarized = 1

\* The step completes the turn of worker w: the second save returns.
CompletesTurn(w) ==
    /\ pc[w] = "save_assistant_message"
    /\ pc'[w] = "idle"
    /\ outcome'[w].kind = "ok"

\* C28. Every completed turn appends exactly two messages to the log of its
\* session: when the turn completes the log is the log the query found,
\* then one user message with the query, then one assistant message with
\* the final response, both unarchived; rows are added to the table only
\* by the two saves, after the pipeline has returned, one row a step.  The
\* hard-stop branch is no exception.
C28_TwoMessagesPerTurn ==
    [][/\ Len(messages') > Len(messages) =>
              /\ Len(messages') = Len(messages) + 1
              /\ \E w \in Workers : pc[w] \in AfterPipeline /\ pc'[w] # pc[w]
       /\ \A w \in Workers :
              CompletesTurn(w) =>
                  LET s == state[w].session_id
                      old == Log(s)
                      new == LogAfter(s)
                      n == locals[w].first_index
                  IN  /\ Len(new) = n + 2
                      /\ SubSeq(new, 1, n) = SubSeq(old, 1, n)
                      /\ new[n + 1].role = "user"
                      /\ new[n + 1].content = state[w].user_query
                      /\ new[n + 1].is_summarized = 0
                      /\ new[n + 2].role = "assistant"
                      /\ new[n + 2].content = state[w].final_response
                      /\ new[n + 2].is_summarized = 0]_vars

\* C28 witness: a turn that took the hard stop has completed, in a session
\* with earlier, archived messages; its two messages end the log.
C28_Witness ==
    \E w \in Workers, s \in Sessions :
        /\ pc[w] = "idle"
        /\ outcome[w].kind = "ok"
        /\ Len(Log(s)) >= 4
        /\ Log(s)[1].is_summarized = 1
        /\ Log(s)[Len(Log(s)) - 1].role = "user"
        /\ Log(s)[Len(Log(s)) - 1].is_summarized = 0
        /\ Log(s)[Len(Log(s))].role = "assistant"
        /\ Log(s)[Len(Log(s))].is_summarized = 0
        /\ Log(s)[Len(Log(s))].content
               = ClarificationText(<<"which one?", "why?">>)

\* ------------------------------------------------- session delete by steps

\* Table query_analysis: save_query_analysis, its only INSERT, has no
\* caller, so the table holds no row.
query_analysis == <<>>

\* The steps of clear_session after its first DELETE.
ClearSteps ==
    {"clear_session_summaries", "clear_session_query_analysis",
     "clear_session_commit"}

\* Mutant: the first DELETE is committed on its own.
ClearSessionMessagesAutocommit(w, s) ==
    /\ pc[w] = "idle"
    /\ txn = None
    /\ SessionRows(messages, s) # <<>> \/ SessionRows(session_summaries, s) # <<>>
    /\ messages' = DeleteSessionRows(messages, s)
    /\ txn' = Some([owner |-> w,
                    messages |-> DeleteSessionRows(messages, s),
                    session_summaries |-> session_summaries])
    /\ pc' = [pc EXCEPT ![w] = "clear_session_summaries"]
    /\ state' = [state EXCEPT ![w] = [NoState EXCEPT !.session_id = s]]
    /\ UNCHANGED <<session_summaries, locals, llm_calls, outcome,
                   trigger_checks>>

\* Database.clear_session, DELETE FROM messages: it opens the write
\* transaction.
ClearSessionMessages(w, s) ==
    /\ pc[w] = "idle"
    /\ txn = None
    /\ SessionRows(messages, s) # <<>> \/ SessionRows(session_summaries, s) # <<>>
    /\ txn' = Some([owner |-> w,
                    messages |-> DeleteSessionRows(messages, s),
                    session_summaries |-> session_summaries])
    /\ pc' = [pc EXCEPT ![w] = "clear_session_summaries"]
    /\ state' = [state EXCEPT ![w] = [NoState EXCEPT !.session_id = s]]
    /\ UNCHANGED <<messages, session_summaries, locals, llm_calls, outcome,
                   trigger_checks>>

\* Database.clear_session, DELETE FROM session_summaries, in the same
\* transaction.
ClearSessionSummaries(w) ==
    /\ pc[w] = "clear_session_summaries"
    /\ txn # None /\ txn[1].owner = w
    /\ txn' = Some([txn[1] EXCEPT
                        !.session_summaries =
                            DeleteSessionRows(@, state[w].session_id)])
    /\ pc' = [pc EXCEPT ![w] = "clear_session_query_analysis"]
    /\ UNCHANGED <<messages, session_summaries, state, locals, llm_calls,
                   outcome, trigger_checks>>

\* Database.clear_session, DELETE FROM query_analysis, in the same
\* transaction: the table is empty and stays so.
ClearSessionQueryAnalysis(w) ==
    /\ pc[w] = "clear_session_query_analysis"
    /\ txn # None /\ txn[1].owner = w
    /\ DeleteSessionRows(query_analysis, state[w].session_id) = query_analysis
    /\ pc' = [pc EXCEPT ![w] = "clear_session_commit"]
    /\ UNCHANGED <<messages, session_summaries, txn, state, locals, llm_calls,
                   outcome, trigger_checks>>

\* Database._get_connection: conn.commit() at the end of clear_session; the
\* button handler returns.
ClearSessionCommit(w) ==
    /\ pc[w] = "clear_session_commit"
    /\ txn # None /\ txn[1].owner = w
    /\ messages' = txn[1].messages
    /\ session_summaries' = txn[1].session_summaries
    /\ txn' = None
    /\ trigger_checks' =
           [trigger_checks EXCEPT ![state[w].session_id] = <<>>]
    /\ pc' = [pc EXCEPT ![w] = "idle"]
    /\ state' = [state EXCEPT ![w] = NoState]
    /\ outcome' = [outcome EXCEPT ![w] = Outcome("cleared", "")]
    /\ UNCHANGED <<locals, llm_calls>>

\* A DELETE of clear_session or its commit raises: _get_connection rolls
\* the transaction back and re-raises.
ClearSessionFailure(w) ==
    /\ pc[w] \in ClearSteps
    /\ txn # None /\ txn[1].owner = w
    /\ messages' = Rollback(messages, txn[1].messages)
    /\ session_summaries' =
           Rollback(session_summaries, txn[1].session_summaries)
    /\ txn' = None
    /\ EndTurn(w, "storage_error", pc[w])
    /\ UNCHANGED trigger_checks

\* The turns of Spec, with clear_session taken one statement at a time.
NextDelete ==
    \E w \in Workers :
        \/ \E s \in Sessions, q \in Queries : SubmitQuery(w, s, q)
        \/ ContextAgent(w)
        \/ SummarizerInvoke(w)
        \/ SummarizerRange(w)
        \/ SaveSummaryInsert(w)
        \/ SaveSummaryUpdate(w)
        \/ SaveSummaryCommit(w)
        \/ MarkMessagesAsSummarized(w)
        \/ QueryAgent(w)
        \/ ResponseAgent(w)
        \/ GenerationFailure(w)
        \/ SaveUserMessage(w)
        \/ SaveAssistantMessage(w)
        \/ StorageFailure(w)
        \/ \E s \in Sessions : ClearSessionMessages(w, s)
        \/ ClearSessionSummaries(w)
        \/ ClearSessionQueryAnalysis(w)
        \/ ClearSessionCommit(w)
        \/ ClearSessionFailure(w)

SpecDelete == Init /\ [][NextDelete]_vars

\* The step removes a committed row of session s from one of the tables.
RemovesRows(s) ==
    \/ \E r \in Range(SessionRows(messages, s)) :
           r.id \notin {n.id : n \in Range(SessionRows(messages', s))}
    \/ \E r \in Range(SessionRows(session_summaries, s)) :
           r.id \notin {n.id : n \in Range(SessionRows(session_summaries', s))}

\* C29. Session delete is atomic and complete.  A step that removes a
\* committed row of a session removes every message and every summary of
\* the session, and is the commit of a delete of that session; after it
\* the session has no message, no latest summary and no query-analysis
\* row.  The statements of a delete before its commit, and a delete that
\* fails, leave both committed tables as they are.
C29_DeleteAtomic ==
    [][/\ \A s \in Sessions :
              RemovesRows(s) =>
                  /\ SessionRows(messages', s) = <<>>
                  /\ SessionRows(session_summaries', s) = <<>>
                  /\ SessionRows(query_analysis, s) = <<>>
                  /\ get_messages(messages', s, FALSE) = <<>>
                  /\ get_latest_summary(session_summaries', s) = None
                  /\ \E w \in Workers :
                         /\ pc[w] = "clear_session_commit"
                         /\ pc'[w] = "idle"
                         /\ state[w].session_id = s
       /\ \A w \in Workers :
              /\ (pc[w] = "idle" /\ pc'[w] \in ClearSteps) =>
                     UNCHANGED <<messages, session_summaries>>
              /\ (pc[w] \in ClearSteps /\ pc'[w] \in ClearSteps) =>
                     UNCHANGED <<messages, session_summaries>>
              /\ (pc[w] \in ClearSteps /\ pc'[w] = "idle"
                      /\ outcome'[w].kind = "storage_error") =>
                     UNCHANGED <<messages, session_summaries>>
              /\ (pc[w] \in ClearSteps /\ pc'[w] = "idle"
                      /\ outcome'[w].kind = "cleared") =>
                     /\ pc[w] = "clear_session_commit"
                     /\ SessionRows(messages', state[w].session_id) = <<>>
                     /\ SessionRows(session_summaries',
                                    state[w].session_id) = <<>>
                     /\ get_latest_summary(session_summaries',
                                           state[w].session_id) = None]_vars

\* C29 witness: a delete has run its three statements and is about to
\* commit; the committed tables still hold the messages and a summary of
\* the session.
C29_Witness ==
    \E w \in Workers :
        /\ pc[w] = "clear_session_commit"
        /\ txn # None
        /\ SessionRows(txn[1].messages, state[w].session_id) = <<>>
        /\ SessionRows(txn[1].session_summaries, state[w].session_id) = <<>>
        /\ SessionRows(messages, state[w].session_id) # <<>>
        /\ SessionRows(session_summaries, state[w].session_id) # <<>>

\* C30. final_augmented_context is always populated: whenever the
\* disambiguator has returned a QueryUnderstanding for a query that is not
\* empty, its final_augmented_context is not the empty text, on the parsed
\* path and on the fallback path.
C30_ContextAlwaysPopulated ==
    \A w \in Workers :
        (pc[w] \in {"response_agent"} \cup AfterPipeline
             /\ state[w].user_query # "") =>
            /\ state[w].query_understanding # None
            /\ state[w].query_understanding[1].final_augmented_context # ""

\* ------------------------------------- interpretations and questions

\* The QueryUnderstanding is decomposed into readings: it is ambiguous and
\* lists at least one interpretation.
DecomposedIntoReadings(qu) ==
    /\ qu.is_ambiguous
    /\ qu.possible_interpretations # <<>>

\* C31. Interpretations and clarifying questions are exclusive: whenever
\* the QueryUnderstanding the disambiguator returned is ambiguous and has a
\* non-empty possible_interpretations, its clarifying_questions is empty,
\* and the response stage does not take the hard-stop branch on it.
C31_InterpretationsExcludeQuestions ==
    \A w \in Workers :
        (/\ pc[w] \in {"response_agent"} \cup AfterPipeline
         /\ state[w].query_understanding # None
         /\ DecomposedIntoReadings(state[w].query_understanding[1])) =>
            /\ state[w].query_understanding[1].clarifying_questions = <<>>
            /\ ~IsHardStop(state[w].query_understanding[1])

\* --------------------------------------------- the text of a payload

\* The text of a response of the generation service, as the sequence of its
\* pieces.  A piece is a word, a line break, a brace or quote of JSON, or
\* the Markdown fence marker (three backticks), written TripleBacktick.
TripleBacktick == "[three backticks]"

Quote == "\""

\* Whitespace, as str.strip() sees it.
Whitespace == {"\n"}

\* str.strip()
RECURSIVE strip(_)
strip(text) ==
    IF text = <<>> THEN text
    ELSE IF text[1] \in Whitespace THEN strip(Tail(text))
    ELSE IF text[Len(text)] \in Whitespace
         THEN strip(SubSeq(text, 1, Len(text) - 1))
    ELSE text

\* str.startswith(prefix)
startswith(text, prefix) ==
    /\ Len(text) >= Len(prefix)
    /\ SubSeq(text, 1, Len(prefix)) = prefix

\* str.replace(old, ""): every occurrence of old is removed, from the left.
RECURSIVE replace(_, _)
replace(text, old) ==
    IF Len(text) < Len(old) THEN text
    ELSE IF SubSeq(text, 1, Len(old)) = old
         THEN replace(SubSeq(text, Len(old) + 1, Len(text)), old)
    ELSE <<text[1]>> \o replace(Tail(text), old)

\* The text value of a JSON string: its pieces one after the other.
RECURSIVE Concat(_)
Concat(pieces) ==
    IF pieces = <<>> THEN "" ELSE pieces[1] \o Concat(Tail(pieces))

\* json.loads on the documents a payload can be: the empty object, and an
\* object with one text value.  The result is the list of text values of
\* the object; None stands for json.JSONDecodeError.
json_loads(text) ==
    IF text = <<"{", "}">> THEN Some(<<>>)
    ELSE IF /\ Len(text) >= 4
            /\ SubSeq(text, 1, 2) = <<"{", Quote>>
            /\ SubSeq(text, Len(text) - 1, Len(text)) = <<Quote, "}">>
            /\ \A i \in 3..(Len(text) - 2) :
                   text[i] \notin {"{", "}", Quote} \cup Whitespace
         THEN Some(<<Concat(SubSeq(text, 3, Len(text) - 2))>>)
    ELSE None

\* Both parsers, "If response is wrapped in markdown code blocks, extract
\* it": the fence the stripped text starts with, and the text left after
\* the replacements.
FenceOf(content) ==
    IF startswith(content, <<TripleBacktick, "json">>) THEN "fence_json"
    ELSE IF startswith(content, <<TripleBacktick>>) THEN "fence"
    ELSE ""

ExtractFromCodeBlock(content) ==
    IF startswith(content, <<TripleBacktick, "json">>)
    THEN strip(replace(replace(content, <<TripleBacktick, "json">>),
                       <<TripleBacktick>>))
    ELSE IF startswith(content, <<TripleBacktick>>)
    THEN strip(replace(content, <<TripleBacktick>>))
    ELSE content

\* summary_dict of a document: an object with a user_profile and the text
\* values as key_facts, or the empty object.
SummaryDocument(values) ==
    IF values = <<>> THEN SummaryObject({}, EmptySessionSummary)
    ELSE SummaryObject(SummaryFields,
                       [EmptySessionSummary EXCEPT !.key_facts = values])

\* query_dict of a document: a clear query with the text value as
\* rewritten_query, or the empty object.
QueryDocument(values, q) ==
    IF values = <<>> THEN MalformedQueryResponse.object
    ELSE QueryObject(q, FALSE, Some(values[1]), Some(<<>>), Some(<<>>)).object

\* response.content of the summarizer's generation call, read the way the
\* parser reads it: the fence it starts with, whether the text inside is
\* well-formed JSON, and the object that text denotes.
SummaryResponseOfText(text) ==
    LET content == strip(text)
        document == json_loads(ExtractFromCodeBlock(content))
    IN  [fence |-> FenceOf(content),
         json |-> document # None,
         object |-> IF document = None
                    THEN SummaryObject({}, EmptySessionSummary)
                    ELSE SummaryDocument(document[1]),
         text |-> text]

\* response.content of the disambiguator's generation call, read the way
\* the parser reads it.
QueryResponseOfText(text, q) ==
    LET content == strip(text)
        document == json_loads(ExtractFromCodeBlock(content))
    IN  [fence |-> FenceOf(content),
         json |-> document # None,
         object |-> IF document = None THEN MalformedQueryResponse.object
                    ELSE QueryDocument(document[1], q),
         text |-> text]

\* The words of a text value: a plain word, and the fence marker (a value
\* that quotes code).
RECURSIVE TextValuesUpTo(_)
TextValuesUpTo(n) ==
    IF n = 0 THEN {<<>>}
    ELSE LET shorter == TextValuesUpTo(n - 1)
         IN  shorter \cup {Append(v, word) :
                               v \in shorter, word \in {"a", TripleBacktick}}

TextValues == TextValuesUpTo(MaxWords)

\* The JSON document with one text value.
Document(value) == <<"{", Quote>> \o value \o <<Quote, "}">>

\* A body in a fenced code block whose opening fence carries the info
\* string tag.
Wrap(tag, body) ==
    <<TripleBacktick>> \o tag \o <<"\n">> \o body \o <<"\n", TripleBacktick>>

\* The info strings the parsers look for: json, and none.
FenceTags == {<<"json">>, <<>>}

\* The texts the generation service returns: documents bare and fenced,
\* the empty object, text that is not JSON, and a document in a fence with
\* another info string.
PayloadTexts ==
    {Document(value) : value \in TextValues}
    \cup {Wrap(tag, Document(value)) : tag \in FenceTags, value \in TextValues}
    \cup {<<"{", "}">>, <<"a">>, Wrap(<<"json">>, <<"a">>),
          Wrap(<<"JSON">>, Document(<<"a">>))}

NextParse ==
    \E w \in Workers :
        \/ \E s \in Sessions : SubmitQuery(w, s, ConcurrentQuery)
        \/ ContextAgent(w)
        \/ SummarizerInvokeOn(w, {SummaryResponseOfText(text) :
                                      text \in PayloadTexts})
        \/ SummarizerRange(w)
        \/ SaveSummaryInsert(w)
        \/ SaveSummaryUpdate(w)
        \/ SaveSummaryCommit(w)
        \/ MarkMessagesAsSummarized(w)
        \/ QueryAgentOn(w, {QueryResponseOfText(text, state[w].user_query) :
                                text \in PayloadTexts})
        \/ ResponseAgent(w)
        \/ SaveUserMessage(w)
        \/ SaveAssistantMessage(w)

\* The turns of a session whose generated payloads are taken as text.
SpecParse == Init /\ [][NextParse]_vars

\* The text cannot be parsed by the stage: after the fence removal it is
\* not a JSON document, or the document lacks a required field.
Unparseable(text) ==
    LET document == json_loads(ExtractFromCodeBlock(strip(text)))
    IN  document = None \/ document[1] = <<>>

\* C32. Wrapper tolerance: in the compaction and in the disambiguation
\* stage, a schema-valid payload in a fenced code block parses to the same
\* structured object as the same payload without the fence, and a payload
\* that still cannot be parsed yields the fallback value of the stage, not
\* an exception.
C32_WrapperTolerance ==
    \A w \in Workers :
        /\ locals[w].response # None =>
               LET text == locals[w].response[1].text
               IN  /\ locals[w].session_summary # None
                   /\ Unparseable(text) =>
                          locals[w].session_summary = Some(EmptySessionSummary)
                   /\ \A tag \in FenceTags, value \in TextValues :
                          text = Wrap(tag, Document(value)) =>
                              locals[w].session_summary =
                                  ParseSummaryResponse(
                                      SummaryResponseOfText(Document(value)))
        /\ locals[w].query_response # None =>
               LET text == locals[w].query_response[1].text
                   q == state[w].user_query
                   recent_context == RecentContext(locals[w].recent_messages)
               IN  /\ state[w].query_understanding # None
                   /\ Unparseable(text) =>
                          state[w].query_understanding
                              = Some(FallbackQueryUnderstanding(q, recent_context))
                   /\ \A tag \in FenceTags, value \in TextValues :
                          text = Wrap(tag, Document(value)) =>
                              state[w].query_understanding =
                                  Some(ParseQueryResponse(
                                           QueryResponseOfText(Document(value), q),
                                           q, recent_context))

\* ------------------------------------------------------- termination

\* A step of the pipeline or of the handler after it: a node function (or
\* a statement of one) that is called and returns.
PipelineStep(w) ==
    \/ ContextAgent(w)
    \/ SummarizerInvoke(w)
    \/ SummarizerRange(w)
    \/ SaveSummaryInsert(w)
    \/ SaveSummaryUpdate(w)
    \/ SaveSummaryCommit(w)
    \/ MarkMessagesAsSummarized(w)
    \/ QueryAgent(w)
    \/ ResponseAgent(w)
    \/ SaveUserMessage(w)
    \/ SaveAssistantMessage(w)

NextLive ==
    \E w \in Workers :
        \/ \E s \in Sessions :
               SubmitQueryUpTo(w, s, ConcurrentQuery, MaxLiveMessages)
        \/ PipelineStep(w)
        \/ GenerationFailure(w)

\* graph.invoke runs each node to its return: a call that was made returns
\* or raises.  Whether the user submits another query is left open, and so
\* is whether the generation service fails.
SpecLive ==
    Init /\ [][NextLive]_vars /\ \A w \in Workers : WF_vars(PipelineStep(w))

\* The stage of the graph a step belongs to: context_agent,
\* summarizer_agent, query_agent, response_agent, and 5 for END and after.
Stage(p) ==
    CASE p = "context_agent" -> 1
      [] p \in Range(CompactionSteps) -> 2
      [] p = "query_agent" -> 3
      [] p = "response_agent" -> 4
      [] OTHER -> 5

\* An error left the handler of w.
RaisedError(w) ==
    /\ pc[w] = "idle"
    /\ outcome[w].kind \in {"generation_error", "storage_error",
                            "parse_error", "validation_error"}

\* C33. Every turn terminates: a pipeline run that started reaches END or
\* raises an error; on its way the run goes through the four stages in
\* order, none of them twice, and each step of a stage is taken once.
C33_TurnTerminates ==
    /\ \A w \in Workers :
           (pc[w] = "context_agent") ~>
               (pc[w] = "save_user_message" \/ RaisedError(w))
    /\ [][\A w \in Workers :
              (pc[w] # "idle" /\ Stage(pc[w]) <= 4) =>
                  /\ pc'[w] # pc[w]
                         => (RaisedError(w)' \/ StageRank(pc'[w]) > StageRank(pc[w]))
                  /\ Stage(pc'[w]) >= Stage(pc[w])]_vars

\* C33 witness: a run at END that went through all four stages.
C33_Witness ==
    \E w \in Workers :
        /\ pc[w] = "save_user_message"
        /\ locals[w].summary_output # None
        /\ locals[w].query_response # None
        /\ locals[w].human_prompt # None

\* ------------------------------------ live context at disambiguation

\* C34. Bounded live context at disambiguation: when the disambiguation
\* stage of a turn starts, the token sum of the unarchived messages of the
\* session is at most the threshold, and when compaction ran in the turn
\* the session has no unarchived message.
C34_BoundedLiveContext ==
    \A w \in Workers :
        pc[w] = "query_agent" =>
            /\ LiveTokenSum(messages, state[w].session_id) <= TokenThreshold
            /\ CompactionRan(w) =>
                   get_messages(messages, state[w].session_id, TRUE) = <<>>

\* C34 witness: disambiguation starts after a compaction that archived
\* every message of a log that was over the threshold.
C34_Witness ==
    \E w \in Workers :
        /\ pc[w] = "query_agent"
        /\ CompactionRan(w)
        /\ state[w].total_tokens > TokenThreshold
        /\ Len(get_messages(messages, state[w].session_id, FALSE)) >= 2
        /\ get_messages(messages, state[w].session_id, TRUE) = <<>>

\* ------------------------------------------------- the original query

\* C35. The original_query of the QueryUnderstanding of a turn is the query
\* the user submitted in that turn, whatever payload the generation service
\* returned, and so is the query the best-effort branch answers when there
\* is no rewritten query.
C35_OriginalQueryIsUserQuery ==
    \A w \in Workers :
        (/\ pc[w] \in {"response_agent"} \cup AfterPipeline
         /\ state[w].query_understanding # None) =>
            LET qu == state[w].query_understanding[1]
            IN  /\ qu.original_query = state[w].user_query
                /\ (/\ locals[w].human_prompt # None
                    /\ qu.rewritten_query \in {None, Some("")}) =>
                       locals[w].human_prompt[1].user_query
                           = state[w].user_query

\* --------------------------------------------- generation calls of a turn

\* The generation calls a finished pipeline run is to have made, in order:
\* one of the summarizer when the run compacted, one of the disambiguator,
\* and one of the responder unless the hard stop was taken.
ExpectedCalls(st) ==
    (IF st.session_summary # None THEN <<"summarizer_agent">> ELSE <<>>)
        \o <<"query_agent">>
        \o (IF HardStopCondition(st.query_understanding[1]) THEN <<>>
            ELSE <<"response_agent">>)

\* C36. Generation calls per turn: a turn with a non-empty query that
\* reaches END has made one call for the compaction if compaction ran, then
\* one disambiguation call, then one response call unless it took the hard
\* stop: in that order, at least one and at most three; no turn makes more
\* than three.
C36_GenerationCalls ==
    \A w \in Workers :
        /\ Len(llm_calls[w]) <= 3
        /\ (pc[w] \in AfterPipeline /\ state[w].user_query # "") =>
               /\ state[w].query_understanding # None
               /\ llm_calls[w] = ExpectedCalls(state[w])
               /\ Len(llm_calls[w]) >= 1

\* C36 witness: a turn at END that compacted and took the hard stop, with
\* two generation calls.
C36_Witness ==
    \E w \in Workers :
        /\ pc[w] \in AfterPipeline
        /\ state[w].session_summary # None
        /\ HardStopCondition(state[w].query_understanding[1])
        /\ llm_calls[w] = <<"summarizer_agent", "query_agent">>

\* ------------------------------- a generation failure after compaction

\* The generation call of the stage worker w is at fails in this step.
GenerationFails(w) ==
    /\ pc[w] \in {"query_agent", "response_agent"}
    /\ pc'[w] = "idle"
    /\ outcome'[w] = Outcome("generation_error", pc[w])

\* C37. A failure of the generation service in the disambiguation or in
\* the response stage of a turn that compacted leaves the summary of that
\* compaction stored as the latest of the session and the messages of its
\* range archived, appends no message of the failed turn, and leaves no
\* unarchived message behind that would make the next turn compact; a
\* later compaction of the session covers a range after that of every
\* stored summary.
C37_FailureAfterCompaction ==
    [][/\ \A w \in Workers :
              (GenerationFails(w) /\ CompactionRan(w)) =>
                  LET s == state[w].session_id
                      log == OrderByTimestampAsc(SessionRows(messages', s))
                      range == locals[w].summary_output[1]
                                   .message_range_summarized
                  IN  /\ messages' = messages
                      /\ session_summaries' = session_summaries
                      /\ txn' = None
                      /\ get_latest_summary(session_summaries', s)
                             = locals[w].summary_output
                      /\ \A p \in 1..Len(log) :
                             log[p].is_summarized = 1 <=> InRange(p, range)
                                 \/ \E k \in 1..Len(StoredRanges(s)) :
                                        InRange(p, StoredRanges(s)[k])
                      /\ Len(log) = locals[w].first_index
                      /\ ~NeedsSummarization(
                              TotalTokens(get_messages(messages', s, TRUE)))
       /\ \A w \in Workers :
              (pc[w] = "save_summary_commit" /\ pc'[w] = "mark_messages") =>
                  \A k \in 1..Len(StoredRanges(state[w].session_id)) :
                      StoredRanges(state[w].session_id)[k].to_index
                          < locals[w].summary_output[1]
                                .message_range_summarized.from_index]_vars

\* C37 witness: the disambiguation or response call of a compacting turn
\* has failed: the handler is idle with that error, the summary is stored
\* and every message of the session is archived.
C37_Witness ==
    \E w \in Workers, s \in Sessions :
        /\ pc[w] = "idle"
        /\ outcome[w].kind = "generation_error"
        /\ outcome[w].stage \in {"query_agent", "response_agent"}
        /\ get_latest_summary(session_summaries, s) # None
        /\ SessionRows(messages, s) # <<>>
        /\ get_messages(messages, s, TRUE) = <<>>

\* ------------------------------------------------------ the empty query

\* ConversationGraph.run called with the empty text as user_query (the
\* chat-input handler of app.py never does: it runs the pipeline for a
\* truthy prompt only).
RunEmptyQuery(w, s) == SubmitQueryUpTo(w, s, "", MaxMessages)

\* ConversationGraph.run returns final_state to a caller that stores no
\* message.
ReturnFinalState(w) ==
    /\ pc[w] = "save_user_message"
    /\ state[w].user_query = ""
    /\ EndTurn(w, "ok", "")
    /\ UNCHANGED <<messages, session_summaries, txn, trigger_checks>>

NextEmpty ==
    \E w \in Workers :
        \/ \E s \in Sessions : SubmitQuery(w, s, ConcurrentQuery)
        \/ \E s \in Sessions : RunEmptyQuery(w, s)
        \/ ContextAgent(w)
        \/ SummarizerInvoke(w)
        \/ SummarizerRange(w)
        \/ SaveSummaryInsert(w)
        \/ SaveSummaryUpdate(w)
        \/ SaveSummaryCommit(w)
        \/ MarkMessagesAsSummarized(w)
        \/ QueryAgent(w)
        \/ ResponseAgent(w)
        \/ ReturnFinalState(w)
        \/ (state[w].user_query # "" /\ SaveUserMessage(w))
        \/ SaveAssistantMessage(w)

\* The turns of a session, among them pipeline runs with the empty query.
SpecEmpty == Init /\ [][NextEmpty]_vars

\* C38. Empty query: a pipeline run with the empty user query makes no
\* generation call in the disambiguation and in the response stage, has no
\* QueryUnderstanding, and returns the text "I need a query to respond
\* to."; check_compaction runs as in any turn, and the run compacts, with
\* the one generation call of the summarizer, exactly when the live tokens
\* it counted are over the threshold.
C38_EmptyQuery ==
    \A w \in Workers :
        (state[w].user_query = "" /\ pc[w] # "idle") =>
            /\ \A i \in 1..Len(llm_calls[w]) :
                   llm_calls[w][i] = "summarizer_agent"
            /\ state[w].query_understanding = None
            /\ (pc[w] = "summarizer_agent"
                    \/ (pc[w] = "query_agent" /\ state[w].session_summary = None))
                   => state[w].total_tokens
                          = LiveTokenSum(messages, state[w].session_id)
            /\ pc[w] \in {"query_agent", "response_agent", "save_user_message"} =>
                   /\ state[w].total_tokens > TokenThreshold
                          <=> state[w].session_summary # None
                   /\ llm_calls[w] =
                          IF state[w].total_tokens > TokenThreshold
                          THEN <<"summarizer_agent">> ELSE <<>>
            /\ pc[w] = "save_user_message" =>
                   state[w].final_response = "I need a query to respond to."

\* C38 witness: a run with the empty query at END that compacted and
\* returns the fixed text.
C38_Witness ==
    \E w \in Workers :
        /\ pc[w] = "save_user_message"
        /\ state[w].user_query = ""
        /\ state[w].session_summary # None
        /\ llm_calls[w] = <<"summarizer_agent">>
        /\ state[w].final_response = "I need a query to respond to."

====
